---- MODULE Spec2Model ----
(***************************************************************************)
(* Tokie: source aggregation and background-refresh scheduler.             *)
(*                                                                         *)
(* The model follows src/src/background-refresh.ts (backgroundRefresh,     *)
(* getCachedOTPs), the loadOTPs callback of src/src/view-2fa-codes.tsx and *)
(* the fetchOTPs methods of the four sources.  Instants are milliseconds   *)
(* (Date.now()); a JavaScript number that may be NaN is the record         *)
(* [nan, v]; an optional value is <<>> (absent) or <<v>>.                  *)
(***************************************************************************)
EXTENDS Integers, Sequences, FiniteSets, TLC

(***************************************************************************)
(* Bounds of the model.                                                    *)
(***************************************************************************)
\* number of clock advances explored after the initial instant
MaxTicks == 2

(***************************************************************************)
(* Program constants.                                                      *)
(***************************************************************************)
\* background-refresh.ts:42  elapsed = (now - lastRefresh) / 60000
MsPerMinute == 60000
\* background-refresh.ts:46 / view-2fa-codes.tsx:87  parseInt(...) || 10
DefaultLookback == 10

\* background-refresh.ts:61 and view-2fa-codes.tsx:93: the order of `sources`
Sources == <<"imessage", "gmail", "icloud", "outlook">>
SourceNames == {Sources[i] : i \in 1..Len(Sources)}

None == <<>>
Some(v) == <<v>>

(***************************************************************************)
(* JavaScript numbers and parseInt(string, 10).                            *)
(***************************************************************************)
Num(v) == [nan |-> FALSE, v |-> v]
NaN == [nan |-> TRUE, v |-> 0]

DigitVal == [c \in {"0", "1", "2", "3", "4", "5", "6", "7", "8", "9"} |->
               CASE c = "0" -> 0 [] c = "1" -> 1 [] c = "2" -> 2 [] c = "3" -> 3
                 [] c = "4" -> 4 [] c = "5" -> 5 [] c = "6" -> 6 [] c = "7" -> 7
                 [] c = "8" -> 8 [] c = "9" -> 9]

RECURSIVE TrimLeft(_)
TrimLeft(s) == IF s # <<>> /\ Head(s) = " " THEN TrimLeft(Tail(s)) ELSE s

\* the longest prefix of s made of decimal digits
RECURSIVE DigitPrefix(_)
DigitPrefix(s) ==
  IF s # <<>> /\ Head(s) \in DOMAIN DigitVal
    THEN <<Head(s)>> \o DigitPrefix(Tail(s))
    ELSE <<>>

RECURSIVE DigitsValue(_, _)
DigitsValue(ds, acc) ==
  IF ds = <<>> THEN acc ELSE DigitsValue(Tail(ds), 10 * acc + DigitVal[Head(ds)])

\* parseInt(s, 10): leading blanks are skipped, one sign is accepted, the
\* digits up to the first other character are read, NaN when there is none.
ParseInt(s) ==
  LET t == TrimLeft(s)
      neg == t # <<>> /\ Head(t) = "-"
      body == IF t # <<>> /\ Head(t) \in {"-", "+"} THEN Tail(t) ELSE t
      ds == DigitPrefix(body)
  IN IF ds = <<>> THEN NaN
     ELSE Num(IF neg THEN 0 - DigitsValue(ds, 0) ELSE DigitsValue(ds, 0))

\* JavaScript truthiness of a number: 0 and NaN are falsy
Truthy(n) == ~n.nan /\ n.v # 0

\* the default left out: parseInt(prefs.lookbackMinutes, 10)
LookbackOf_parsed(s) == ParseInt(s).v

\* parseInt(prefs.lookbackMinutes, 10) || 10
LookbackOf(s) == IF Truthy(ParseInt(s)) THEN ParseInt(s).v ELSE DefaultLookback

\* the preference string compared with 0 without parseInt: never equal
IsDisabled_unparsed(interval) == FALSE

\* intervalMinutes === 0
IsDisabled(interval) == ~interval.nan /\ interval.v = 0

\* lastRefresh truthy and (now - lastRefresh) / 60000 < intervalMinutes;
\* a comparison with NaN is false.  The quotient is compared exactly:
\* d / 60000 < m  iff  d < m * 60000 for integers d, m.
\* the division by 60000 left out: milliseconds compared with minutes
Throttled_unscaled(last, now, interval) ==
  /\ last # None
  /\ last[1] # 0
  /\ ~interval.nan
  /\ now - last[1] < interval.v

\* an interval that is not a number throttles like an endless one
Throttled_unparsed(last, now, interval) ==
  /\ last # None
  /\ last[1] # 0
  /\ (interval.nan \/ now - last[1] < interval.v * MsPerMinute)

Throttled(last, now, interval) ==
  /\ last # None
  /\ last[1] # 0
  /\ ~interval.nan
  /\ now - last[1] < interval.v * MsPerMinute

(***************************************************************************)
(* The OTP detector: extractOTP, isValidOTPCode and their patterns.  A     *)
(* text is the sequence of its characters; a regular expression is the     *)
(* operator that tells whether it matches at a position, and what it       *)
(* captures there.                                                         *)
(***************************************************************************)
Digits == DOMAIN DigitVal

UpperCase == <<"A", "B", "C", "D", "E", "F", "G", "H", "I", "J", "K", "L", "M", "N", "O", "P", "Q", "R", "S", "T", "U", "V", "W", "X", "Y", "Z">>
LowerCase == <<"a", "b", "c", "d", "e", "f", "g", "h", "i", "j", "k", "l", "m", "n", "o", "p", "q", "r", "s", "t", "u", "v", "w", "x", "y", "z">>
Letters == {UpperCase[i] : i \in DOMAIN UpperCase} \cup {LowerCase[i] : i \in DOMAIN LowerCase}

\* \s (the blank characters a text of the model may hold) and \w
Blanks == {" ", "\t", "\n", "\r", "\f"}
WordChars == Letters \cup Digits \cup {"_"}

\* String.prototype.toLowerCase, and the matching of a letter under the i flag
LowerOf ==
  [c \in {UpperCase[i] : i \in DOMAIN UpperCase} |->
     LowerCase[CHOOSE i \in DOMAIN UpperCase : UpperCase[i] = c]]

LowerChar(c) == IF c \in DOMAIN LowerOf THEN LowerOf[c] ELSE c

ToLowerCase(s) == [i \in DOMAIN s |-> LowerChar(s[i])]

\* the word w stands in s at position i
WordAt(s, i, w) ==
  /\ i >= 1
  /\ i + Len(w) - 1 <= Len(s)
  /\ \A k \in DOMAIN w : s[i + k - 1] = w[k]

\* String.prototype.includes
Includes(s, w) == \E i \in 1..(Len(s) - Len(w) + 1) : WordAt(s, i, w)

\* the position after the longest run of characters of `class` from i on:
\* a greedy class* (the classes that follow one another in the patterns are
\* disjoint, so giving characters back never turns a failure into a match)
SkipWhile(s, i, class) ==
  LET stops == {j \in i..(Len(s) + 1) : j = Len(s) + 1 \/ s[j] \notin class}
  IN CHOOSE j \in stops : \A k \in stops : j <= k

DigitRun(s, i) == SkipWhile(s, i, Digits) - i

Min(a, b) == IF a <= b THEN a ELSE b

\* \b at the boundary before position i
WordBoundary(s, i) ==
  LET before == i > 1 /\ s[i - 1] \in WordChars
      after == i <= Len(s) /\ s[i] \in WordChars
  IN before # after

\* a match: the captured group and the position after the match (lastIndex)
Match(code, end) == Some([code |-> code, end |-> end])

\* the one of the words that stands at position i of the lowercased text
KeywordAt(low, i, words) == {w \in words : WordAt(low, i, w)}

\* (\d{4,8}) at position j, taken greedily: the first up to eight digits
DigitsAt(s, j) ==
  LET n == Min(DigitRun(s, j), 8)
  IN IF n >= 4 THEN Match(SubSeq(s, j, j + n - 1), j + n) ELSE None

\* LABELED_CODE_PATTERNS[0]: /(?:code|pin|otp|password)[\s:]*[is]*[\s:]*(\d{4,8})/gi
Labeled1At(s, i) ==
  LET low == ToLowerCase(s)
      kw == KeywordAt(low, i, {<<"c", "o", "d", "e">>, <<"p", "i", "n">>, <<"o", "t", "p">>, <<"p", "a", "s", "s", "w", "o", "r", "d">>})
  IN IF kw = {} THEN None
     ELSE LET w == CHOOSE x \in kw : TRUE
              j1 == SkipWhile(s, i + Len(w), Blanks \cup {":"})
              j2 == SkipWhile(low, j1, {"i", "s"})
              j3 == SkipWhile(s, j2, Blanks \cup {":"})
          IN DigitsAt(s, j3)

\* \s+word: the position after the blanks and the word, 0 when they are not there
AfterBlanksWord(low, j, w) ==
  LET k == SkipWhile(low, j, Blanks)
  IN IF k > j /\ WordAt(low, k, w) THEN k + Len(w) ELSE 0

\* LABELED_CODE_PATTERNS[1]: /(\d{4,8})\s+is\s+your\s+(?:code|pin|otp)/gi
\* the digits must end where the blanks begin, so the run at i has 4 to 8 digits
Labeled2At(s, i) ==
  LET low == ToLowerCase(s)
      n == DigitRun(s, i)
      a == AfterBlanksWord(low, i + n, <<"i", "s">>)
      b == IF a = 0 THEN 0 ELSE AfterBlanksWord(low, a, <<"y", "o", "u", "r">>)
      k == IF b = 0 THEN 0 ELSE SkipWhile(low, b, Blanks)
      kw == IF b = 0 \/ k = b THEN {}
            ELSE KeywordAt(low, k, {<<"c", "o", "d", "e">>, <<"p", "i", "n">>, <<"o", "t", "p">>})
  IN IF n >= 4 /\ n <= 8 /\ kw # {}
       THEN Match(SubSeq(s, i, i + n - 1), k + Len(CHOOSE x \in kw : TRUE))
       ELSE None

\* LABELED_CODE_PATTERNS[2]: /\bG-(\d{5,6})\b/g, case-sensitive
Labeled3At(s, i) ==
  LET n == DigitRun(s, i + 2)
  IN IF /\ WordAt(s, i, <<"G", "-">>)
        /\ WordBoundary(s, i)
        /\ n \in {5, 6}
        /\ WordBoundary(s, i + 2 + n)
       THEN Match(SubSeq(s, i + 2, i + 1 + n), i + 2 + n)
       ELSE None

\* LABELED_CODE_PATTERNS[3]: /(?:OTP|PIN|CODE)[\s:-]+(\d{4,8})/gi
Labeled4At(s, i) ==
  LET low == ToLowerCase(s)
      kw == KeywordAt(low, i, {<<"o", "t", "p">>, <<"p", "i", "n">>, <<"c", "o", "d", "e">>})
  IN IF kw = {} THEN None
     ELSE LET w == CHOOSE x \in kw : TRUE
              j == SkipWhile(s, i + Len(w), Blanks \cup {":", "-"})
          IN IF j > i + Len(w) THEN DigitsAt(s, j) ELSE None

\* STANDALONE_PATTERNS[0]: /\b(\d{4,8})\b/g
StandaloneAt(s, i) ==
  LET n == DigitRun(s, i)
  IN IF n >= 4 /\ n <= 8 /\ WordBoundary(s, i) /\ WordBoundary(s, i + n)
       THEN Match(SubSeq(s, i, i + n - 1), i + n)
       ELSE None

\* the labeled patterns tried last to first
LabeledPatterns_reversed == <<4, 3, 2, 1>>

\* the patterns in the order extractOTP tries them
LabeledPatterns == <<1, 2, 3, 4>>
StandalonePattern == 5

MatchAt(k, s, i) ==
  CASE k = 1 -> Labeled1At(s, i)
    [] k = 2 -> Labeled2At(s, i)
    [] k = 3 -> Labeled3At(s, i)
    [] k = 4 -> Labeled4At(s, i)
    [] k = 5 -> StandaloneAt(s, i)

\* isValidOTPCode, lines 619-645
AllDigits(code) == \A i \in DOMAIN code : code[i] \in Digits

\* the length test left out: /^\d+$/
IsValidOTPCode_anyLength(code) ==
  /\ code # <<>> /\ AllDigits(code)
  /\ ~(Len(code) >= 2 /\ \A i \in DOMAIN code : code[i] = code[1])
  /\ ~Includes(<<"0", "1", "2", "3", "4", "5", "6", "7", "8", "9">>, code)
  /\ ~Includes(<<"9", "8", "7", "6", "5", "4", "3", "2", "1", "0">>, code)
  /\ ~(Len(code) = 4 /\ DigitsValue(code, 0) >= 1900 /\ DigitsValue(code, 0) <= 2100)

IsValidOTPCode(code) ==
  IF ~(Len(code) >= 4 /\ Len(code) <= 8 /\ AllDigits(code)) THEN FALSE
  ELSE IF Len(code) >= 2 /\ \A i \in DOMAIN code : code[i] = code[1] THEN FALSE
  ELSE IF \/ Includes(<<"0", "1", "2", "3", "4", "5", "6", "7", "8", "9">>, code)
          \/ Includes(<<"9", "8", "7", "6", "5", "4", "3", "2", "1", "0">>, code)
    THEN FALSE
  ELSE IF Len(code) = 4 /\ ParseInt(code).v >= 1900 /\ ParseInt(code).v <= 2100
    THEN FALSE
  ELSE TRUE

\* the while loop over pattern.exec(text) of a g pattern, from lastIndex
\* `from` on: the valid captures, leftmost match first, each search starting
\* where the match before ended
RECURSIVE ValidCaptures(_, _, _)

\* the leftmost of the matches tried at the positions: tried is a set of
\* pairs <<position, MatchAt there>>
Leftmost(tried) ==
  LET hits == {p \in tried : p[2] # None}
  IN IF hits = {} THEN None
     ELSE (CHOOSE p \in hits : \A q \in hits : p[1] <= q[1])[2]

\* every capture pushed, the validator not asked
Captured_unvalidated(k, s, found) ==
  IF found = None THEN <<>>
  ELSE <<found[1].code>> \o ValidCaptures(k, s, found[1].end)

\* the body of the loop for the match found: push a valid capture, go on
\* from lastIndex
Captured(k, s, found) ==
  IF found = None THEN <<>>
  ELSE (IF IsValidOTPCode(found[1].code) THEN <<found[1].code>> ELSE <<>>)
         \o ValidCaptures(k, s, found[1].end)

ValidCaptures(k, s, from) ==
  Captured(k, s, Leftmost({<<i, MatchAt(k, s, i)>> : i \in from..Len(s)}))

\* OTP_INDICATORS, lines 484-511
OTP_INDICATORS ==
  { <<"v", "e", "r", "i", "f", "i", "c", "a", "t", "i", "o", "n", " ", "c", "o", "d", "e">>,
    <<"v", "e", "r", "i", "f", "y", " ", "c", "o", "d", "e">>,
    <<"s", "e", "c", "u", "r", "i", "t", "y", " ", "c", "o", "d", "e">>,
    <<"a", "u", "t", "h", "e", "n", "t", "i", "c", "a", "t", "i", "o", "n", " ", "c", "o", "d", "e">>,
    <<"o", "n", "e", "-", "t", "i", "m", "e", " ", "c", "o", "d", "e">>,
    <<"o", "n", "e", " ", "t", "i", "m", "e", " ", "c", "o", "d", "e">>,
    <<"o", "t", "p">>,
    <<"p", "a", "s", "s", "c", "o", "d", "e">>,
    <<"p", "i", "n", " ", "c", "o", "d", "e">>,
    <<"l", "o", "g", "i", "n", " ", "c", "o", "d", "e">>,
    <<"a", "c", "c", "e", "s", "s", " ", "c", "o", "d", "e">>,
    <<"c", "o", "n", "f", "i", "r", "m", "a", "t", "i", "o", "n", " ", "c", "o", "d", "e">>,
    <<"2", "f", "a", " ", "c", "o", "d", "e">>,
    <<"t", "w", "o", "-", "f", "a", "c", "t", "o", "r">>,
    <<"t", "w", "o", " ", "f", "a", "c", "t", "o", "r">>,
    <<"s", "i", "g", "n", "-", "i", "n", " ", "c", "o", "d", "e">>,
    <<"s", "i", "g", "n", " ", "i", "n", " ", "c", "o", "d", "e">>,
    <<"s", "i", "g", "n", "i", "n", " ", "c", "o", "d", "e">>,
    <<"y", "o", "u", "r", " ", "c", "o", "d", "e", " ", "i", "s">>,
    <<"y", "o", "u", "r", " ", "c", "o", "d", "e", ":">>,
    <<"c", "o", "d", "e", " ", "i", "s">>,
    <<"c", "o", "d", "e", ":">>,
    <<"e", "n", "t", "e", "r", " ", "c", "o", "d", "e">>,
    <<"u", "s", "e", " ", "c", "o", "d", "e">>,
    <<"t", "e", "m", "p", "o", "r", "a", "r", "y", " ", "p", "a", "s", "s", "w", "o", "r", "d">>,
    <<"t", "e", "m", "p", "o", "r", "a", "r", "y", " ", "c", "o", "d", "e">> }

\* hasOTPIndicator, lines 548-551
HasOTPIndicator(s) == \E w \in OTP_INDICATORS : Includes(ToLowerCase(s), w)

\* word\s*#?\s*\d+ at position i of the lowercased text
NumberedAt(low, i, w) ==
  /\ WordAt(low, i, w)
  /\ LET j == SkipWhile(low, i + Len(w), Blanks)
         k == IF j <= Len(low) /\ low[j] = "#" THEN j + 1 ELSE j
     IN DigitRun(low, SkipWhile(low, k, Blanks)) >= 1

\* EXCLUSION_PATTERNS, lines 532-543
ExclusionAt(low, i) ==
  \/ low[i] = "$" /\ DigitRun(low, i + 1) >= 1
  \/ /\ DigitRun(low, i) >= 4
     /\ KeywordAt(low, SkipWhile(low, i + DigitRun(low, i), Blanks),
                  {<<"u", "s", "d">>, <<"e", "u", "r">>, <<"g", "b", "p">>, <<"c", "a", "d">>, <<"a", "u", "d">>}) # {}
  \/ \E w \in {<<"o", "r", "d", "e", "r">>, <<"t", "r", "a", "c", "k", "i", "n", "g">>, <<"i", "n", "v", "o", "i", "c", "e">>} : NumberedAt(low, i, w)
  \/ \E w \in {<<"r", "e", "c", "e", "i", "p", "t">>,
               <<"b", "a", "l", "a", "n", "c", "e">>,
               <<"s", "t", "a", "t", "e", "m", "e", "n", "t">>,
               <<"s", "u", "b", "s", "c", "r", "i", "p", "t", "i", "o", "n">>,
               <<"n", "e", "w", "s", "l", "e", "t", "t", "e", "r">>} : WordAt(low, i, w)

\* hasExclusionPattern, lines 556-558
HasExclusionPattern(s) == \E i \in DOMAIN s : ExclusionAt(ToLowerCase(s), i)

\* the first pattern of ks that has a valid capture gives matches[0]
RECURSIVE FirstValid(_, _)

FirstOr(caps, ks, s) == IF caps # <<>> THEN Some(caps[1]) ELSE FirstValid(ks, s)

FirstValid(ks, s) ==
  IF ks = <<>> THEN None ELSE FirstOr(ValidCaptures(Head(ks), s, 1), Tail(ks), s)

\* the confidences 0.9 and 0.6, in hundredths
OTPMatch(code, confidence) == Some([code |-> code, confidence |-> confidence])

\* the standalone pattern tried without an indicator
Extracted_always(labeled, alone, hasIndicator) ==
  IF labeled # None THEN OTPMatch(labeled[1], 90)
  ELSE IF alone # <<>> THEN OTPMatch(alone[1], 60)
  ELSE None

\* lines 575-613: matches[0] of the labeled patterns, else, with an
\* indicator, matches[0] of the standalone pattern
Extracted(labeled, alone, hasIndicator) ==
  IF labeled # None THEN OTPMatch(labeled[1], 90)
  ELSE IF hasIndicator /\ alone # <<>> THEN OTPMatch(alone[1], 60)
  ELSE None

\* the exclusion test left out
ExtractOTP_ungated(text) ==
  IF text = <<>> THEN None
  ELSE Extracted(FirstValid(LabeledPatterns, text),
                 ValidCaptures(StandalonePattern, text, 1), HasOTPIndicator(text))

\* an exclusion pattern rejects the text whatever the indicator
ExtractGated_strict(text, hasIndicator) ==
  IF HasExclusionPattern(text) THEN None
  ELSE Extracted(FirstValid(LabeledPatterns, text),
                 ValidCaptures(StandalonePattern, text, 1), hasIndicator)

\* lines 567-613, hasIndicator computed at line 567
ExtractGated(text, hasIndicator) ==
  IF HasExclusionPattern(text) /\ ~hasIndicator THEN None
  ELSE Extracted(FirstValid(LabeledPatterns, text),
                 ValidCaptures(StandalonePattern, text, 1), hasIndicator)

\* extractOTP, lines 564-614
ExtractOTP(text) ==
  IF text = <<>> THEN None ELSE ExtractGated(text, HasOTPIndicator(text))

\* containsOTP, lines 650-652
ContainsOTP(text) == ExtractOTP(text) # None

(***************************************************************************)
(* Entries.                                                                *)
(***************************************************************************)
\* the source names as they appear in the id template strings
SourceChars ==
  [imessage |-> <<"i", "m", "e", "s", "s", "a", "g", "e">>,
   gmail |-> <<"g", "m", "a", "i", "l">>,
   icloud |-> <<"i", "c", "l", "o", "u", "d">>,
   outlook |-> <<"o", "u", "t", "l", "o", "o", "k">>]

\* a native id in a template string: ROWID and uid are numbers, written in
\* decimal; the ids of gmail and outlook are strings, here numerals
RECURSIVE Decimal(_)
Decimal(n) ==
  LET last == <<CHOOSE c \in Digits : DigitVal[c] = n % 10>>
  IN IF n < 10 THEN last ELSE Decimal(n \div 10) \o last

\* the id without the source's name
MakeEntry_bareId(src, m, code) ==
  [id |-> Decimal(m.nid), code |-> code, source |-> src, timestamp |-> m.ts,
   messageId |-> Some(m.nid)]

\* the OTPEntry a source pushes for a provider message m = [nid, ts, text]
\* in which extractOTP found the code:
\* entries.push({id: `gmail-${msg.id}`, code: otpMatch.code, source: "gmail",
\* timestamp, messageId: msg.id}), likewise in the other sources
MakeEntry(src, m, code) ==
  [id |-> SourceChars[src] \o <<"-">> \o Decimal(m.nid), code |-> code,
   source |-> src, timestamp |-> m.ts, messageId |-> Some(m.nid)]

\* the loop over the provider's messages: an entry is pushed for each
\* message in whose text extractOTP finds a code.  extractOTP depends on the
\* text alone; a message carries its outcome as otpMatch (see Msg).
RECURSIVE MakeEntries(_, _)
MakeEntries(src, ms) ==
  IF ms = <<>> THEN <<>>
  ELSE LET otpMatch == Head(ms).otpMatch
       IN (IF otpMatch # None THEN <<MakeEntry(src, Head(ms), otpMatch[1].code)>> ELSE <<>>)
            \o MakeEntries(src, Tail(ms))

\* Array.prototype.sort with (a, b) => b.timestamp - a.timestamp: a stable
\* sort, descending by timestamp.  Insert puts e after every element whose
\* timestamp is >= e's, so equal timestamps keep their input order.
\* a sort that is not stable: e goes before the elements that tie with it
RECURSIVE Insert_unstable(_, _)
Insert_unstable(e, sorted) ==
  IF sorted = <<>> THEN <<e>>
  ELSE IF Head(sorted).timestamp > e.timestamp
    THEN <<Head(sorted)>> \o Insert_unstable(e, Tail(sorted))
    ELSE <<e>> \o sorted

RECURSIVE Insert(_, _)
Insert(e, sorted) ==
  IF sorted = <<>> THEN <<e>>
  ELSE IF Head(sorted).timestamp >= e.timestamp
    THEN <<Head(sorted)>> \o Insert(e, Tail(sorted))
    ELSE <<e>> \o sorted

\* the sort left out
SortDesc_absent(s) == s

RECURSIVE SortDesc(_)
SortDesc(s) ==
  IF s = <<>> THEN <<>>
  ELSE Insert(s[Len(s)], SortDesc(SubSeq(s, 1, Len(s) - 1)))

\* the loop over the Promise.allSettled results, in the order of `sources`:
\* the value of every fulfilled result is appended, a rejected one is skipped
RECURSIVE CollectFrom(_, _)
CollectFrom(res, i) ==
  IF i > Len(Sources) THEN <<>>
  ELSE (IF res[Sources[i]].st = "fulfilled" THEN res[Sources[i]].val ELSE <<>>)
         \o CollectFrom(res, i + 1)

\* Promise.all instead of allSettled in spirit: the loop stops at the first
\* rejected result
RECURSIVE CollectUntilRejected(_, _)
CollectUntilRejected(res, i) ==
  IF i > Len(Sources) \/ res[Sources[i]].st = "rejected" THEN <<>>
  ELSE res[Sources[i]].val \o CollectUntilRejected(res, i + 1)

Collect_stops(res) == CollectUntilRejected(res, 1)

Collect(res) == CollectFrom(res, 1)

\* JSON.stringify of the entry list: a Date is written by toISOString, as
\* whole seconds since the epoch and a millisecond part
ToISO(t) == [secs |-> t \div 1000, millis |-> t % 1000]
\* the millisecond part dropped
FromISO_seconds(iso) == iso.secs * 1000

\* new Date(isoString)
FromISO(iso) == iso.secs * 1000 + iso.millis

SerializeEntry(e) == [e EXCEPT !.timestamp = ToISO(e.timestamp)]

RECURSIVE Serialize(_)
Serialize(s) ==
  IF s = <<>> THEN <<>> ELSE <<SerializeEntry(Head(s))>> \o Serialize(Tail(s))

\* A JSON text, as JSON.parse sees it: form "array" with the items of the
\* array, or "empty" (the empty string), "malformed" (JSON.parse throws),
\* "scalar" (a number, string, boolean or null) or "object".  An item is a
\* serialized entry or [json |-> "null" | "number" | "object"] (the object
\* without fields).
JsonText(form, items) == [form |-> form, items |-> items]

\* JSON.stringify(allOTPs)
Stringify(list) == JsonText("array", Serialize(list))

IsJunk(item) == "json" \in DOMAIN item

\* the Date of a revived item that has no timestamp: new Date(undefined)
InvalidDate == "Invalid Date"

\* ({ ...entry, timestamp: new Date(entry.timestamp) }), line 22-25
Revive(item) ==
  IF IsJunk(item) THEN [json |-> item.json, timestamp |-> InvalidDate]
  ELSE [item EXCEPT !.timestamp = FromISO(item.timestamp)]

\* getCachedOTPs, lines 15-28: `cached` is what LocalStorage.getItem gave.
\* An absent or empty value gives []; so does a value JSON.parse rejects, a
\* parsed value without .map, and an array with a null item (reading
\* entry.timestamp throws): the catch returns [].  Any other array is mapped
\* item by item.
GetCachedOTPs(cached) ==
  IF cached = None THEN <<>>
  ELSE IF cached[1].form # "array" THEN <<>>
  ELSE IF \E i \in DOMAIN cached[1].items :
            IsJunk(cached[1].items[i]) /\ cached[1].items[i].json = "null"
    THEN <<>>
  ELSE [i \in DOMAIN cached[1].items |-> Revive(cached[1].items[i])]

(***************************************************************************)
(* State.                                                                  *)
(***************************************************************************)
VARIABLES
  prefs,      \* getPreferenceValues(): the extension preferences
  dbExists,   \* existsSync(MESSAGES_DB_PATH)
  tokens,     \* per OAuth provider: is a usable token set stored
  tokenStore, \* "sound", or "faulty": a call of the OAuth client's token store
              \* (getTokens, setTokens) may reject
  mailbox,    \* per source: the provider messages in which a code is found
  remote,     \* the providers' side: for gmail and outlook the native ids
              \* marked read and put away (trash, Deleted Items); for icloud
              \* the INBOX, a message's sequence number being its position
  commands,   \* the commands the host launches: "bg" (the scheduled
              \* background-refresh command), "view" (the list view)
  limit,      \* how many passes the host lets run at the same time
  clock,      \* Date.now()
  store,      \* LocalStorage: cache (OTP_CACHE_KEY), lastRefresh (LAST_REFRESH_KEY);
              \* cacheBy records the slot whose call wrote the cache last
  view,       \* React state of ListOTPs: otps, isLoading, the two authorized flags
  probe,      \* the one call of a handler or function under examination: its
              \* name, its argument and what it gave
  pass        \* per slot: one running backgroundRefresh or loadOTPs call; the
              \* fields startedAfter, settled, replaced, did and outcome record
              \* what the call has done (the slots running when it started, the
              \* order its fetches settled in, the cache value it overwrote, the
              \* effects it had, how it ended)

vars == <<prefs, dbExists, tokens, tokenStore, mailbox, remote, commands, limit, probe, clock, store, view, pass>>

Slots == {1, 2}

\* the instant of the first state and the step of the clock
StartInstant == 2 * MsPerMinute
TickMs == MsPerMinute \div 2

\* per source, the promise of its fetchOTPs call: st is "idle" before the
\* call, then "pending", "fulfilled" (with val) or "rejected"; arg is the
\* lookback passed, calls counts the calls, io tells whether the source has
\* queried its provider (a request, an IMAP connection, the database query),
\* token whether it has asked the OAuth client for its token
NoRes ==
  [s \in SourceNames |->
     [st |-> "idle", val |-> <<>>, arg |-> 0, calls |-> 0, io |-> FALSE,
      token |-> FALSE]]

IdlePass ==
  [kind |-> "idle", pc |-> "idle", interval |-> NaN, last |-> None, now |-> 0,
   lookback |-> 0, res |-> NoRes, settled |-> <<>>, allOTPs |-> <<>>,
   replaced |-> None, did |-> {}, outcome |-> "none", startedAfter |-> {}]

\* the slots whose call is under way
Running == {q \in Slots : pass[q].kind # "idle"}

\* isEnabled() and isConfigured() of the four sources
IsEnabled(src) ==
  CASE src = "imessage" -> prefs.enableIMessage
    [] src = "gmail" -> prefs.enableGmail
    [] src = "icloud" -> prefs.enableICloudMail
    [] src = "outlook" -> prefs.enableOutlook

IsConfigured(src) ==
  CASE src = "imessage" -> dbExists
    [] src = "gmail" -> prefs.gmailClientId
    [] src = "icloud" -> prefs.icloudCredentials
    [] src = "outlook" -> prefs.outlookClientId

\* getAccessToken(): the token, null when none is stored (or the refresh is
\* refused), or a rejection of the token store (getTokens / setTokens)
StoreOutcomes == IF tokenStore = "faulty" THEN {"throws"} ELSE {}

TokenOutcomes(src) == (IF tokens[src] THEN {"token"} ELSE {"null"}) \cup StoreOutcomes

\* the client id left out of the test
NeedsAuthCheck_enabledOnly(src) == IsEnabled(src)

\* prefs.enableGmail && prefs.gmailClientId, prefs.enableOutlook && prefs.outlookClientId
NeedsAuthCheck(src) == IsEnabled(src) /\ IsConfigured(src)

\* where a pass continues after its synchronous prefix
AfterDecision ==
  IF NeedsAuthCheck("gmail") THEN "gmailAuth"
  ELSE IF NeedsAuthCheck("outlook") THEN "outlookAuth" ELSE "invoke"

AfterGmailCheck == IF NeedsAuthCheck("outlook") THEN "outlookAuth" ELSE "invoke"

Finish(r, how) == [r EXCEPT !.pc = "done", !.outcome = how]

CanStart(p, kind) ==
  /\ kind \in commands
  /\ pass[p].kind = "idle"
  /\ \A q \in Slots : q < p => pass[q].kind # "idle"
  /\ Cardinality({q \in Slots : pass[q].kind # "idle"}) < limit

(***************************************************************************)
(* backgroundRefresh                                                       *)
(***************************************************************************)
\* lines 31-38: read the interval, return when it is 0, else ask for the
\* last-refresh record
BackgroundRefresh(p) ==
  /\ CanStart(p, "bg")
  /\ LET interval == ParseInt(prefs.backgroundRefreshInterval)
         r == [IdlePass EXCEPT !.kind = "bg", !.interval = interval,
                               !.startedAfter = Running]
     IN pass' = [pass EXCEPT ![p] =
                   IF IsDisabled(interval) THEN Finish(r, "skipped")
                   ELSE [r EXCEPT !.pc = "readLast"]]
  /\ UNCHANGED <<prefs, dbExists, tokens, tokenStore, mailbox, remote, commands, limit, probe, clock, store, view>>

\* line 38: LocalStorage.getItem(LAST_REFRESH_KEY) answers
ReadLastRefresh(p) ==
  /\ pass[p].pc = "readLast"
  /\ pass' = [pass EXCEPT ![p].last = store.lastRefresh, ![p].pc = "throttle"]
  /\ UNCHANGED <<prefs, dbExists, tokens, tokenStore, mailbox, remote, commands, limit, probe, clock, store, view>>

\* a single-flight guard added: the call returns when another is under way
ThrottleCheck_guarded(p) ==
  /\ pass[p].pc = "throttle"
  /\ LET r == [pass[p] EXCEPT !.now = clock]
     IN pass' = [pass EXCEPT ![p] =
                   IF Throttled(r.last, r.now, r.interval) \/ Running # {p}
                     THEN Finish(r, "skipped")
                   ELSE [r EXCEPT !.lookback = LookbackOf(prefs.lookbackMinutes),
                                  !.pc = AfterDecision]]
  /\ UNCHANGED <<prefs, dbExists, tokens, tokenStore, mailbox, remote, commands, limit, probe, clock, store, view>>

\* lines 39-49: now = Date.now(), the throttle test, the lookback window
ThrottleCheck(p) ==
  /\ pass[p].pc = "throttle"
  /\ LET r == [pass[p] EXCEPT !.now = clock]
     IN pass' = [pass EXCEPT ![p] =
                   IF Throttled(r.last, r.now, r.interval) THEN Finish(r, "skipped")
                   ELSE [r EXCEPT !.lookback = LookbackOf(prefs.lookbackMinutes),
                                  !.pc = AfterDecision]]
  /\ UNCHANGED <<prefs, dbExists, tokens, tokenStore, mailbox, remote, commands, limit, probe, clock, store, view>>

\* Date.now() read again at the end of the pass
WriteLastRefresh_late(p) ==
  /\ pass[p].kind = "bg"
  /\ pass[p].pc = "persisted"
  /\ store' = [store EXCEPT !.lastRefresh = Some(clock)]
  /\ pass' = [pass EXCEPT ![p] =
                Finish([pass[p] EXCEPT !.did = @ \cup {"lastRefresh"}], "ran")]
  /\ UNCHANGED <<prefs, dbExists, tokens, tokenStore, mailbox, remote, commands, limit, probe, clock, view>>

\* the pass ends without the write
WriteLastRefresh_absent(p) ==
  /\ pass[p].kind = "bg"
  /\ pass[p].pc = "persisted"
  /\ pass' = [pass EXCEPT ![p] = Finish(pass[p], "ran")]
  /\ UNCHANGED <<prefs, dbExists, tokens, tokenStore, mailbox, remote, commands, limit, probe, clock, store, view>>

\* line 74: LocalStorage.setItem(LAST_REFRESH_KEY, now)
WriteLastRefresh(p) ==
  /\ pass[p].kind = "bg"
  /\ pass[p].pc = "persisted"
  /\ store' = [store EXCEPT !.lastRefresh = Some(pass[p].now)]
  /\ pass' = [pass EXCEPT ![p] =
                Finish([pass[p] EXCEPT !.did = @ \cup {"lastRefresh"}], "ran")]
  /\ UNCHANGED <<prefs, dbExists, tokens, tokenStore, mailbox, remote, commands, limit, probe, clock, view>>

(***************************************************************************)
(* loadOTPs of the view                                                    *)
(***************************************************************************)
\* view-2fa-codes.tsx lines 87-95: setIsLoading(true)
LoadOTPs(p) ==
  /\ CanStart(p, "view")
  /\ view' = [view EXCEPT !.isLoading = TRUE]
  /\ pass' = [pass EXCEPT ![p] =
                [IdlePass EXCEPT !.kind = "view", !.startedAfter = Running,
                                 !.lookback = LookbackOf(prefs.lookbackMinutes),
                                 !.pc = AfterDecision]]
  /\ UNCHANGED <<prefs, dbExists, tokens, tokenStore, mailbox, remote, commands, limit, probe, clock, store>>

\* view-2fa-codes.tsx lines 118-119: setOTPs(allOTPs); setIsLoading(false)
SetOTPs(p) ==
  /\ pass[p].kind = "view"
  /\ pass[p].pc = "persisted"
  /\ view' = [view EXCEPT !.otps = pass[p].allOTPs, !.isLoading = FALSE]
  /\ pass' = [pass EXCEPT ![p] = Finish(pass[p], "ran")]
  /\ UNCHANGED <<prefs, dbExists, tokens, tokenStore, mailbox, remote, commands, limit, probe, clock, store>>

(***************************************************************************)
(* Steps shared by the two kinds of pass.                                  *)
(***************************************************************************)
\* isGmailAuthorized() answers: background-refresh.ts 50-51, view 96-97
GmailAuthCheck(p) ==
  /\ pass[p].pc = "gmailAuth"
  /\ \E o \in TokenOutcomes("gmail") :
       LET r == [pass[p] EXCEPT !.did = @ \cup {"auth:gmail"}]
       IN /\ pass' = [pass EXCEPT ![p] =
                        IF o = "throws" THEN Finish(r, "error")
                        ELSE IF r.kind = "bg" /\ o = "null" THEN Finish(r, "skipped")
                        ELSE [r EXCEPT !.pc = AfterGmailCheck]]
          /\ view' = IF pass[p].kind = "view" /\ o # "throws"
                       THEN [view EXCEPT !.gmailAuthorized = (o = "token")]
                       ELSE view
  /\ UNCHANGED <<prefs, dbExists, tokens, tokenStore, mailbox, remote, commands, limit, probe, clock, store>>

\* the answer of isOutlookAuthorized() is not tested by backgroundRefresh
OutlookAuthCheck_lenient(p) ==
  /\ pass[p].pc = "outlookAuth"
  /\ \E o \in TokenOutcomes("outlook") :
       LET r == [pass[p] EXCEPT !.did = @ \cup {"auth:outlook"}]
       IN /\ pass' = [pass EXCEPT ![p] =
                        IF o = "throws" THEN Finish(r, "error")
                        ELSE [r EXCEPT !.pc = "invoke"]]
          /\ view' = IF pass[p].kind = "view" /\ o # "throws"
                       THEN [view EXCEPT !.outlookAuthorized = (o = "token")]
                       ELSE view
  /\ UNCHANGED <<prefs, dbExists, tokens, tokenStore, mailbox, remote, commands, limit, probe, clock, store>>

\* isOutlookAuthorized() answers: background-refresh.ts 56-57, view 101-102
OutlookAuthCheck(p) ==
  /\ pass[p].pc = "outlookAuth"
  /\ \E o \in TokenOutcomes("outlook") :
       LET r == [pass[p] EXCEPT !.did = @ \cup {"auth:outlook"}]
       IN /\ pass' = [pass EXCEPT ![p] =
                        IF o = "throws" THEN Finish(r, "error")
                        ELSE IF r.kind = "bg" /\ o = "null" THEN Finish(r, "skipped")
                        ELSE [r EXCEPT !.pc = "invoke"]]
          /\ view' = IF pass[p].kind = "view" /\ o # "throws"
                       THEN [view EXCEPT !.outlookAuthorized = (o = "token")]
                       ELSE view
  /\ UNCHANGED <<prefs, dbExists, tokens, tokenStore, mailbox, remote, commands, limit, probe, clock, store>>

\* the sources not yet called by sources.map(...)
NextSource(r) == CHOOSE i \in 1..Len(Sources) :
                   /\ r.res[Sources[i]].st = "idle"
                   /\ \A j \in 1..(i - 1) : r.res[Sources[j]].st # "idle"

AllInvoked(r) == \A s \in SourceNames : r.res[s].st # "idle"

\* what the call source.fetchOTPs(lookback) has done when it hands back its
\* promise.  A disabled or unconfigured source has returned [].  imessage
\* has no await: execSync has run the query (or thrown, or timed out after
\* 5000 ms, which the catch turns into the entries so far, none).  The other
\* sources are waiting for their first await.
\* the test of isEnabled() and isConfigured() left out
FetchCall_unguarded(src, prev, lookback, ok) ==
  LET called == [prev EXCEPT !.arg = lookback, !.calls = @ + 1]
  IN IF src = "imessage"
       THEN [called EXCEPT !.st = "fulfilled", !.io = TRUE,
                           !.val = IF ok THEN MakeEntries(src, mailbox[src]) ELSE <<>>]
     ELSE [called EXCEPT !.st = "pending"]

FetchCall(src, prev, lookback, ok) ==
  LET called == [prev EXCEPT !.arg = lookback, !.calls = @ + 1]
  IN IF ~IsEnabled(src) \/ ~IsConfigured(src)
       THEN [called EXCEPT !.st = "fulfilled"]
     ELSE IF src = "imessage"
       THEN [called EXCEPT !.st = "fulfilled", !.io = TRUE,
                           !.val = IF ok THEN MakeEntries(src, mailbox[src]) ELSE <<>>]
     ELSE [called EXCEPT !.st = "pending"]

\* one call of the sources.map(...) callback: background-refresh.ts 63, view 105
InvokeFetch(p) ==
  /\ pass[p].pc = "invoke"
  /\ \E ok \in BOOLEAN :
       LET r == pass[p]
           src == Sources[NextSource(r)]
           f == FetchCall(src, r.res[src], r.lookback, ok)
           r2 == [r EXCEPT !.res[src] = f,
                           !.settled = IF f.st = "pending" THEN @ ELSE Append(@, src),
                           !.did = @ \cup {src}]
       IN pass' = [pass EXCEPT ![p] =
                     IF AllInvoked(r2) THEN [r2 EXCEPT !.pc = "await"] ELSE r2]
  /\ UNCHANGED <<prefs, dbExists, tokens, tokenStore, mailbox, remote, commands, limit, probe, clock, store, view>>

\* how a pending fetchOTPs settles.  gmail and outlook: getAccessToken is
\* outside the try, so its rejection rejects the promise; without a token
\* the result is []; with one, the request is made and any failure (network
\* error, non-OK answer) gives [].  icloud: a failed connection or a failure
\* inside the try gives [].
SettleOutcomes(src) ==
  IF src = "icloud" THEN {"ok", "failed"}
  ELSE (IF tokens[src] THEN {"ok", "failed"} ELSE {"null"}) \cup StoreOutcomes

FetchSettle(src, prev, o) ==
  LET asked == [prev EXCEPT !.token = (src \in {"gmail", "outlook"})]
  IN CASE o = "throws" -> [asked EXCEPT !.st = "rejected"]
       [] o = "null" -> [asked EXCEPT !.st = "fulfilled"]
       [] o = "failed" -> [asked EXCEPT !.st = "fulfilled", !.io = TRUE]
       [] o = "ok" -> [asked EXCEPT !.st = "fulfilled", !.io = TRUE,
                                    !.val = MakeEntries(src, mailbox[src])]

\* a pending fetchOTPs settles.  Promises settle only after the synchronous
\* sources.map(...) has called every source.
SettleFetch(p, src) ==
  /\ pass[p].pc = "await"
  /\ pass[p].res[src].st = "pending"
  /\ \E o \in SettleOutcomes(src) :
       pass' = [pass EXCEPT ![p].res[src] = FetchSettle(src, pass[p].res[src], o),
                            ![p].settled = Append(@, src)]
  /\ UNCHANGED <<prefs, dbExists, tokens, tokenStore, mailbox, remote, commands, limit, probe, clock, store, view>>

AllSettled(r) == \A s \in SourceNames : r.res[s].st \in {"fulfilled", "rejected"}

\* a call that finds a cache while another call is under way writes that
\* cache back instead of its own list
Aggregate_yields(p) ==
  /\ pass[p].pc = "await"
  /\ AllSettled(pass[p])
  /\ LET all == SortDesc(Collect(pass[p].res))
     IN /\ store' = [store EXCEPT
                       !.cache = IF @ # None /\ Running # {p} THEN @
                                 ELSE Some(Stringify(all)),
                       !.cacheBy = p]
        /\ pass' = [pass EXCEPT ![p].allOTPs = all, ![p].pc = "persisted",
                                ![p].replaced = store.cache,
                                ![p].did = @ \cup {"cache"}]
  /\ UNCHANGED <<prefs, dbExists, tokens, tokenStore, mailbox, remote, commands, limit, probe, clock, view>>

\* an empty result leaves the cache it finds in place
Aggregate_retains(p) ==
  /\ pass[p].pc = "await"
  /\ AllSettled(pass[p])
  /\ LET all == SortDesc(Collect(pass[p].res))
     IN /\ store' = [store EXCEPT
                       !.cache = IF @ # None /\ all = <<>> THEN @
                                 ELSE Some(Stringify(all)),
                       !.cacheBy = p]
        /\ pass' = [pass EXCEPT ![p].allOTPs = all, ![p].pc = "persisted",
                                ![p].replaced = store.cache,
                                ![p].did = @ \cup {"cache"}]
  /\ UNCHANGED <<prefs, dbExists, tokens, tokenStore, mailbox, remote, commands, limit, probe, clock, view>>

\* Promise.allSettled has resolved: the loop over the results, the sort and
\* LocalStorage.setItem(OTP_CACHE_KEY, JSON.stringify(allOTPs)):
\* background-refresh.ts 65-73, view 107-116
Aggregate(p) ==
  /\ pass[p].pc = "await"
  /\ AllSettled(pass[p])
  /\ LET all == SortDesc(Collect(pass[p].res))
     IN /\ store' = [store EXCEPT !.cache = Some(Stringify(all)), !.cacheBy = p]
        /\ pass' = [pass EXCEPT ![p].allOTPs = all, ![p].pc = "persisted",
                                ![p].replaced = store.cache,
                                ![p].did = @ \cup {"cache"}]
  /\ UNCHANGED <<prefs, dbExists, tokens, tokenStore, mailbox, remote, commands, limit, probe, clock, view>>

\* the call has returned (or thrown) to its caller
Return(p) ==
  /\ pass[p].pc = "done"
  /\ pass' = [pass EXCEPT ![p] = IdlePass]
  /\ UNCHANGED <<prefs, dbExists, tokens, tokenStore, mailbox, remote, commands, limit, probe, clock, store, view>>

\* time passes
Tick ==
  /\ clock < StartInstant + MaxTicks * TickMs
  /\ clock' = clock + TickMs
  /\ UNCHANGED <<prefs, dbExists, tokens, tokenStore, mailbox, remote, commands, limit, probe, store, view, pass>>

(***************************************************************************)
(* Initial states.                                                         *)
(***************************************************************************)
\* a provider message: its native id, its instant, its text and what
\* extractOTP(text) gives
TextMsg(n, t, text) == [nid |-> n, ts |-> t, text |-> text, otpMatch |-> ExtractOTP(text)]

\* a message whose text carries a code ending in the digit n
Msg(n, t) ==
  TextMsg(n, t, <<"o", "t", "p", " ", "4", "8", "2">>
                  \o <<CHOOSE c \in Digits : DigitVal[c] = n % 10>>)

\* Mailboxes for the aggregation: imessage returns its rows newest first and
\* the LEFT JOIN on chat_message_join may repeat a row; gmail lists an older
\* message before a newer one; timestamps tie across and within sources.
RichMailboxes ==
  { [imessage |-> <<Msg(7, 2500), Msg(7, 2500)>>,
     gmail |-> <<Msg(1, 1500), Msg(2, 3500)>>,
     icloud |-> <<Msg(1, 2500)>>,
     outlook |-> <<Msg(1, 1500)>>],
    [imessage |-> <<Msg(7, 2500), Msg(8, 2500)>>,
     gmail |-> <<Msg(1, 1500), Msg(2, 3500)>>,
     icloud |-> <<Msg(1, 2500)>>,
     outlook |-> <<Msg(1, 1500)>>] }

QuietMailbox ==
  [imessage |-> <<>>, gmail |-> <<Msg(1, 1500)>>, icloud |-> <<>>,
   outlook |-> <<Msg(1, 3500)>>]

\* every source enabled and configured, refresh every minute
AllOnPrefs ==
  [backgroundRefreshInterval |-> <<"1">>, lookbackMinutes |-> <<"5">>,
   enableIMessage |-> TRUE, enableGmail |-> TRUE, gmailClientId |-> TRUE,
   enableICloudMail |-> TRUE, icloudCredentials |-> TRUE,
   enableOutlook |-> TRUE, outlookClientId |-> TRUE]

\* the values of the backgroundRefreshInterval preference: disabled, one
\* minute, the empty string and the absent preference (parseInt reads
\* "undefined"), neither of which is a number
IntervalPrefs == {<<"0">>, <<"1">>, <<>>, <<"u", "n", "d", "e", "f", "i", "n", "e", "d">>}

\* the scheduler's configurations: only the OAuth sources may be enabled
SchedPrefs ==
  { [AllOnPrefs EXCEPT !.backgroundRefreshInterval = i,
                       !.enableIMessage = FALSE, !.enableICloudMail = FALSE,
                       !.enableGmail = g[1], !.gmailClientId = g[2],
                       !.enableOutlook = o, !.outlookClientId = o] :
      i \in IntervalPrefs,
      g \in {<<TRUE, TRUE>>, <<TRUE, FALSE>>, <<FALSE, TRUE>>},
      o \in BOOLEAN }

InitView ==
  [otps |-> <<>>, isLoading |-> TRUE, gmailAuthorized |-> FALSE, outlookAuthorized |-> FALSE]

NoProbe == [fn |-> "none", arg |-> <<>>, out |-> <<>>]

NoRemote ==
  [gmail |-> [read |-> {}, away |-> {}], outlook |-> [read |-> {}, away |-> {}],
   icloud |-> <<>>]

InitCommon ==
  /\ tokenStore = "faulty"
  /\ remote = NoRemote
  /\ clock = StartInstant
  /\ view = InitView
  /\ pass = [p \in Slots |-> IdlePass]

\* the last-refresh record left by an earlier session: none, or half a
\* minute before the first instant
PriorRefresh == {None, Some(StartInstant - TickMs)}

InitAggregation ==
  /\ dbExists = TRUE
  /\ prefs = AllOnPrefs
  /\ store \in [cache : {None}, lastRefresh : {None}, cacheBy : {0}]
  /\ tokens = [gmail |-> TRUE, outlook |-> TRUE]
  /\ mailbox \in RichMailboxes

InitScheduler ==
  /\ dbExists = TRUE
  /\ prefs \in SchedPrefs
  /\ store \in [cache : {None}, lastRefresh : PriorRefresh, cacheBy : {0}]
  /\ tokens \in [{"gmail", "outlook"} -> BOOLEAN]
  /\ mailbox = QuietMailbox

\* the configurations in which no source is both enabled and configured:
\* each source is switched off, or switched on without what it needs (the
\* Messages database, a client id, the iCloud credentials)
GatedPrefs ==
  { [AllOnPrefs EXCEPT !.enableIMessage = im,
                       !.enableGmail = g[1], !.gmailClientId = g[2],
                       !.enableICloudMail = ic[1], !.icloudCredentials = ic[2],
                       !.enableOutlook = o[1], !.outlookClientId = o[2]] :
      im \in BOOLEAN,
      g \in {<<TRUE, FALSE>>, <<FALSE, TRUE>>},
      ic \in {<<TRUE, FALSE>>, <<FALSE, TRUE>>},
      o \in {<<TRUE, FALSE>>, <<FALSE, TRUE>>} }

InitGated ==
  /\ dbExists = FALSE
  /\ prefs \in GatedPrefs
  /\ store \in [cache : {None}, lastRefresh : {None}, cacheBy : {0}]
  /\ tokens = [gmail |-> TRUE, outlook |-> TRUE]
  /\ mailbox \in RichMailboxes

\* parseInt(undefined, 10) reads the string "undefined"
Undefined == <<"u", "n", "d", "e", "f", "i", "n", "e", "d">>

\* the values of the lookbackMinutes preference: absent, empty, zero, a
\* number, a negative number, a number followed by a letter
LookbackPrefs ==
  {Undefined, <<>>, <<"0">>, <<"5">>, <<"-", "5">>, <<"7", "m">>}

\* the lookback configurations: imessage is the only source switched on and
\* holds one message
InitLookback ==
  /\ dbExists = TRUE
  /\ \E l \in LookbackPrefs :
       prefs = [AllOnPrefs EXCEPT !.lookbackMinutes = l, !.enableGmail = FALSE,
                                  !.enableICloudMail = FALSE, !.enableOutlook = FALSE]
  /\ store \in [cache : {None}, lastRefresh : {None}, cacheBy : {0}]
  /\ tokens = [gmail |-> TRUE, outlook |-> TRUE]
  /\ mailbox = [QuietMailbox EXCEPT !.imessage = <<Msg(7, 2500)>>]

Init ==
  /\ InitCommon
  /\ probe = NoProbe
  /\ limit = 1
  /\ commands \in {{"bg"}, {"view"}}
  /\ (InitAggregation \/ InitScheduler \/ InitGated \/ InitLookback)

Next ==
  \/ \E p \in Slots : BackgroundRefresh(p)
  \/ \E p \in Slots : ReadLastRefresh(p)
  \/ \E p \in Slots : ThrottleCheck(p)
  \/ \E p \in Slots : LoadOTPs(p)
  \/ \E p \in Slots : GmailAuthCheck(p)
  \/ \E p \in Slots : OutlookAuthCheck(p)
  \/ \E p \in Slots : InvokeFetch(p)
  \/ \E p \in Slots, src \in SourceNames : SettleFetch(p, src)
  \/ \E p \in Slots : Aggregate(p)
  \/ \E p \in Slots : WriteLastRefresh(p)
  \/ \E p \in Slots : SetOTPs(p)
  \/ \E p \in Slots : Return(p)
  \/ Tick

Spec == Init /\ [][Next]_vars

\* The steps the JavaScript event loop runs once they are ready: every step
\* of a call except the settling of a request to a provider.  gmail, icloud
\* and outlook await their requests without a timeout, so a provider that
\* never answers leaves SettleFetch untaken; only imessage's execSync is
\* bounded (timeout: 5000) and it runs inside InvokeFetch.
Progress ==
  \E p \in Slots :
    \/ ReadLastRefresh(p) \/ ThrottleCheck(p)
    \/ GmailAuthCheck(p) \/ OutlookAuthCheck(p)
    \/ InvokeFetch(p) \/ Aggregate(p)
    \/ WriteLastRefresh(p) \/ SetOTPs(p) \/ Return(p)

\* every source enabled, configured and authorized, under either command
InitFair ==
  /\ InitCommon
  /\ probe = NoProbe
  /\ limit = 1
  /\ commands \in {{"bg"}, {"view"}}
  /\ InitAggregation

FairSpec == InitFair /\ [][Next]_vars /\ WF_vars(Progress)

\* Two calls at a time: the host launches the background command while the
\* view is open, or the background command twice.  gmail and outlook are
\* enabled and authorized; gmail holds one message, so the list of a call is
\* that entry or, when its request fails, empty.
InitOverlap ==
  /\ dbExists = TRUE
  /\ tokenStore = "sound"
  /\ remote = NoRemote
  /\ probe = NoProbe
  /\ clock = StartInstant + (MaxTicks - 1) * TickMs
  /\ view = InitView
  /\ pass = [p \in Slots |-> IdlePass]
  /\ limit = 2
  /\ commands = {"bg", "view"}
  /\ prefs = [AllOnPrefs EXCEPT !.enableIMessage = FALSE, !.enableICloudMail = FALSE]
  /\ store = [cache |-> None, lastRefresh |-> None, cacheBy |-> 0]
  /\ tokens = [gmail |-> TRUE, outlook |-> TRUE]
  /\ mailbox = [imessage |-> <<>>, gmail |-> <<Msg(1, 1500)>>, icloud |-> <<>>,
                outlook |-> <<>>]

OverlapSpec == InitOverlap /\ [][Next]_vars

(***************************************************************************)
(* The detector on its own: one call of isValidOTPCode or extractOTP on an *)
(* argument drawn from the sets below.                                     *)
(***************************************************************************)
\* longest string of the digits 5 and 8, and of one repeated digit
MaxCodeLen == 10
\* longest string over digits, a letter and a blank
MaxMixedLen == 5

StringsOver(alphabet, n) == UNION {[1..k -> alphabet] : k \in 0..n}

\* the arguments of isValidOTPCode: every string of four digits, the strings
\* of 5 and 8 up to MaxCodeLen, the strings of one repeated digit, every
\* substring of "0123456789" and of "9876543210", strings that hold a letter
\* or a blank, and the four named in the documentation
CodeArgs ==
  LET up == <<"0", "1", "2", "3", "4", "5", "6", "7", "8", "9">>
      down == <<"9", "8", "7", "6", "5", "4", "3", "2", "1", "0">>
  IN [1..4 -> Digits]
     \cup StringsOver({"5", "8"}, MaxCodeLen)
     \cup {[i \in 1..k |-> d] : d \in Digits, k \in 1..MaxCodeLen}
     \cup {SubSeq(up, i, j) : i, j \in 1..10} \cup {SubSeq(down, i, j) : i, j \in 1..10}
     \cup StringsOver({"5", "8", "a", " "}, MaxMixedLen)
     \cup { <<"1", "2", "3", "4", "5", "6">>,
          <<"6", "5", "4", "3", "2", "1">>,
          <<"2", "0", "2", "4">>,
          <<"5", "8", "3", "0", "2", "1">> }

\* the texts given to extractOTP: a part that an exclusion pattern matches (or
\* none), a part with an indicator phrase (or none), a part with digits (or
\* none) and an ending
ExclusionParts ==
  { <<>>,
    <<"O", "r", "d", "e", "r", " ", "#", "5", "8", "3", "9", "2", "1", " ">>,
    <<"r", "e", "c", "e", "i", "p", "t", " ">>,
    <<"$", "2", "5", " ">>,
    <<"i", "n", "v", "o", "i", "c", "e", " ", "8", "8", " ">>,
    <<"7", "5", "0", "0", " ", "U", "S", "D", " ">> }

IndicatorParts ==
  { <<>>,
    <<"o", "t", "p", " ">>,
    <<"V", "e", "r", "i", "f", "i", "c", "a", "t", "i", "o", "n", " ", "c", "o", "d", "e", " ">>,
    <<"t", "w", "o", "-", "f", "a", "c", "t", "o", "r", " ">> }

CodeParts ==
  { <<>>,
    <<"4", "8", "2", "1">>,
    <<"5", "8", "3", "9", "2", "1">>,
    <<"c", "o", "d", "e", ":", " ", "4", "8", "2", "1">>,
    <<"4", "8", "2", "1", " ", "i", "s", " ", "y", "o", "u", "r", " ", "p", "i", "n">>,
    <<"G", "-", "5", "8", "3", "0", "2">>,
    <<"P", "I", "N", "-", "7", "3", "9", "1">>,
    <<"1", "2", "3", "4", "5", "6", "7", "8", "9", "0">>,
    <<"1", "2", "3", "4", "5", "6">>,
    <<"2", "0", "2", "4">>,
    <<"x", "4", "8", "2", "1">>,
    <<"p", "i", "n", " ", "1", "1", "1", "1", " ", "p", "i", "n", " ", "7", "3", "9", "1">>,
    <<"C", "o", "d", "e", " ", "i", "s", " ", "5", "8", "3", "0", "2", "1">>,
    <<"c", "o", "d", "e", " ", "9", "1", "8", "2", "7", "3", "6", "4", "5", "0">>,
    <<"9", "1", "8", "2", "7", "3", "6", "4", "5", "0", " ", "i", "s", " ", "y", "o", "u", "r", " ", "c", "o", "d", "e">>,
    <<"4", "8", "2", "1", " ", "i", "s", " ", "y", "o", "u", "r", " ", "p", "i", "n", " ", "7", "3", "9", "1">>,
    <<"P", "I", "N", "-", "7", "3", "9", "1", " ", "c", "o", "d", "e", " ", "4", "8", "2", "1">>,
    <<"2", "0", "2", "4", " ", "4", "8", "2", "1", " ", "7", "3", "9", "1">> }

EndParts ==
  { <<>>,
    <<"h", "a", "s", " ", "s", "h", "i", "p", "p", "e", "d">>,
    <<"0", " ", "d", "a", "y", "s">> }

Texts ==
  {a \o b \o c \o d : a \in ExclusionParts, b \in IndicatorParts, c \in CodeParts,
                      d \in EndParts}

Call(fn, arg) == [fn |-> fn, arg |-> arg, out |-> <<>>]

InitDetector ==
  /\ InitCommon
  /\ dbExists = TRUE
  /\ limit = 1
  /\ commands = {"view"}
  /\ prefs = AllOnPrefs
  /\ store = [cache |-> None, lastRefresh |-> None, cacheBy |-> 0]
  /\ tokens = [gmail |-> TRUE, outlook |-> TRUE]
  /\ mailbox = QuietMailbox
  /\ probe \in {Call("isValidOTPCode", c) : c \in CodeArgs}
               \cup {Call("extractOTP", t) : t \in Texts}

\* isValidOTPCode(code) returns
CallIsValidOTPCode ==
  /\ probe.fn = "isValidOTPCode" /\ probe.out = <<>>
  /\ probe' = [probe EXCEPT !.out = <<IsValidOTPCode(probe.arg)>>]
  /\ UNCHANGED <<prefs, dbExists, tokens, tokenStore, mailbox, remote, commands, limit,
                 clock, store, view, pass>>

\* extractOTP(text) returns
CallExtractOTP ==
  /\ probe.fn = "extractOTP" /\ probe.out = <<>>
  /\ probe' = [probe EXCEPT !.out = <<ExtractOTP(probe.arg)>>]
  /\ UNCHANGED <<prefs, dbExists, tokens, tokenStore, mailbox, remote, commands, limit,
                 clock, store, view, pass>>

DetectorNext == CallIsValidOTPCode \/ CallExtractOTP

DetectorSpec == InitDetector /\ [][DetectorNext]_vars

(***************************************************************************)
(* Properties of one aggregation pass.                                     *)
(***************************************************************************)
Count(e, seq) == Cardinality({i \in DOMAIN seq : seq[i] = e})

\* a pass that has built its list
Aggregated(r) == r.pc = "persisted" \/ (r.pc = "done" /\ r.outcome = "ran")

\* the entries some source of the pass handed back
Yielded(r) == UNION {{r.res[s].val[i] : i \in DOMAIN r.res[s].val} : s \in SourceNames}

FulfilledVal(r, s) == IF r.res[s].st = "fulfilled" THEN r.res[s].val ELSE <<>>

\* C1: the list of a pass holds exactly the entries of the sources whose
\* fetchOTPs fulfilled, each as often as it was handed back; a rejected
\* source adds nothing, takes nothing away, and its rejection does not end
\* the pass with an error.
C1_ExactlyFulfilled ==
  \A p \in Slots :
    LET r == pass[p]
    IN /\ Aggregated(r) =>
            \A e \in Yielded(r) \cup {r.allOTPs[i] : i \in DOMAIN r.allOTPs} :
              Count(e, r.allOTPs) =
                Count(e, FulfilledVal(r, "imessage")) + Count(e, FulfilledVal(r, "gmail"))
                + Count(e, FulfilledVal(r, "icloud")) + Count(e, FulfilledVal(r, "outlook"))
       /\ (\E s \in SourceNames : r.res[s].st = "rejected") => r.outcome # "error"

\* one source rejected, one returned [], one returned two entries
C1_Witness ==
  \E p \in Slots :
    /\ pass[p].pc = "done" /\ pass[p].outcome = "ran"
    /\ pass[p].res["gmail"].st = "rejected"
    /\ pass[p].res["icloud"].st = "fulfilled" /\ pass[p].res["icloud"].val = <<>>
    /\ pass[p].res["outlook"].st = "fulfilled" /\ pass[p].res["outlook"].val = <<>>
    /\ Len(pass[p].res["imessage"].val) = 2
    /\ Len(pass[p].allOTPs) = 2

IsSortedDesc(seq, Key(_)) ==
  \A i \in 1..(Len(seq) - 1) : Key(seq[i]) >= Key(seq[i + 1])

EntryInstant(e) == e.timestamp
StoredInstant(e) == e.timestamp.secs * 1000 + e.timestamp.millis

\* C2: the list of every pass, the list displayed and the list persisted as
\* the cache are ordered non-increasing by timestamp.
C2_SortedDescending ==
  /\ \A p \in Slots : IsSortedDesc(pass[p].allOTPs, EntryInstant)
  /\ IsSortedDesc(view.otps, EntryInstant)
  /\ store.cache # None => IsSortedDesc(store.cache[1].items, StoredInstant)

\* a pass whose concatenated results were not in order: gmail handed back
\* its older message first, after imessage's newer ones
C2_Witness ==
  \E p \in Slots :
    /\ pass[p].pc = "done" /\ pass[p].outcome = "ran"
    /\ Len(pass[p].res["imessage"].val) = 2
    /\ Len(pass[p].res["gmail"].val) = 2
    /\ pass[p].res["gmail"].val[1].timestamp < pass[p].res["gmail"].val[2].timestamp
    /\ store.cache # None /\ Len(store.cache[1].items) >= 4

\* the entries of seq with timestamp t, in their order in seq
AtInstant(seq, t) == LET Test(e) == e.timestamp = t IN SelectSeq(seq, Test)

\* C3: among the entries with one timestamp, the list keeps the order of the
\* source list (imessage, gmail, icloud, outlook) and, within a source, the
\* order the source returned, whatever the order the fetches settled in.
C3_TiesInSourceOrder ==
  \A p \in Slots :
    LET r == pass[p]
    IN Aggregated(r) =>
         \A t \in {e.timestamp : e \in Yielded(r)} :
           AtInstant(r.allOTPs, t) =
             AtInstant(FulfilledVal(r, "imessage"), t) \o AtInstant(FulfilledVal(r, "gmail"), t)
             \o AtInstant(FulfilledVal(r, "icloud"), t) \o AtInstant(FulfilledVal(r, "outlook"), t)

\* outlook settled before icloud, icloud before gmail; imessage returned two
\* distinct entries with one timestamp, which ties with icloud's, and gmail's
\* older entry ties with outlook's
C3_Witness ==
  \E p \in Slots :
    LET r == pass[p]
    IN /\ Aggregated(r)
       /\ r.settled = <<"imessage", "outlook", "icloud", "gmail">>
       /\ Len(r.res["imessage"].val) = 2
       /\ r.res["imessage"].val[1].id # r.res["imessage"].val[2].id
       /\ r.res["imessage"].val[1].timestamp = r.res["imessage"].val[2].timestamp
       /\ Len(r.res["icloud"].val) = 1
       /\ r.res["icloud"].val[1].timestamp = r.res["imessage"].val[1].timestamp
       /\ Len(r.res["gmail"].val) = 2 /\ Len(r.res["outlook"].val) = 1
       /\ r.res["gmail"].val[1].timestamp = r.res["outlook"].val[1].timestamp

\* C4: the list of a pass never holds two entries with the same id.
C4_UniqueIds ==
  \A p \in Slots :
    Aggregated(pass[p]) =>
      \A i, j \in DOMAIN pass[p].allOTPs :
        pass[p].allOTPs[i].id = pass[p].allOTPs[j].id => i = j

\* C5: every source is called exactly once with the lookback of the pass,
\* and no source has queried its provider while another source has still
\* to be called.
C5_CalledOnceConcurrently ==
  \A p \in Slots :
    LET r == pass[p]
    IN /\ \A s \in SourceNames :
            /\ r.res[s].calls <= 1
            /\ r.res[s].calls = 1 => r.res[s].arg = r.lookback
            /\ r.pc \in {"await", "persisted"} => r.res[s].calls = 1
       /\ \A s, t \in SourceNames : r.res[s].io => r.res[t].st # "idle"

(***************************************************************************)
(* Properties of the scheduler.                                            *)
(***************************************************************************)
\* C6: every pass that has started eventually completes, even when a
\* provider never answers.
C6_PassCompletes ==
  \A p \in Slots : (pass[p].kind # "idle") ~> (pass[p].pc = "done")

\* the steps of a pass that touch a provider, the token store or LocalStorage
Effects == SourceNames \cup {"auth:gmail", "auth:outlook", "cache", "lastRefresh"}

\* a step of the background command
BgStep(p) == pass'[p] # pass[p] /\ (pass[p].kind = "bg" \/ pass'[p].kind = "bg")

\* C7: with the interval preference 0 every backgroundRefresh call ends
\* skipped at once: no authorization check, no fetch, no write to the cache
\* or the last-refresh record.
C7_DisabledAlwaysSkips ==
  [][prefs.backgroundRefreshInterval = <<"0">> =>
       \A p \in Slots :
         BgStep(p) =>
           /\ store' = store
           /\ pass'[p].kind = "bg" =>
                /\ pass'[p].pc = "done" /\ pass'[p].outcome = "skipped"
                /\ pass'[p].did \cap Effects = {}]_vars

\* skipped with interval 0 although a minute or more has passed since the
\* last refresh, gmail is authorized and outlook is not
C7_Witness ==
  \E p \in Slots :
    /\ prefs.backgroundRefreshInterval = <<"0">>
    /\ pass[p].kind = "bg" /\ pass[p].pc = "done" /\ pass[p].outcome = "skipped"
    /\ store.lastRefresh # None /\ clock - store.lastRefresh[1] >= MsPerMinute
    /\ prefs.enableGmail /\ prefs.gmailClientId /\ tokens["gmail"]
    /\ prefs.enableOutlook /\ prefs.outlookClientId /\ ~tokens["outlook"]

\* C8: a call that read a last-refresh instant less than the interval before
\* its `now` ends skipped, with no authorization check, fetch or write.
C8_ThrottledSkips ==
  \A p \in Slots :
    LET r == pass[p]
    IN (/\ r.kind = "bg" /\ r.pc \notin {"idle", "readLast", "throttle"}
        /\ r.last # None /\ ~r.interval.nan
        /\ (r.now - r.last[1]) \div MsPerMinute < r.interval.v)
       => /\ r.pc = "done" /\ r.outcome = "skipped"
          /\ r.did \cap Effects = {}

\* skipped half a minute after the last refresh with an interval of a minute
C8_Witness ==
  \E p \in Slots :
    /\ pass[p].kind = "bg" /\ pass[p].pc = "done" /\ pass[p].outcome = "skipped"
    /\ pass[p].interval = Num(1)
    /\ pass[p].last # None
    /\ pass[p].now - pass[p].last[1] = TickMs

GmailBlocks == prefs.enableGmail /\ prefs.gmailClientId /\ ~tokens["gmail"]
OutlookBlocks == prefs.enableOutlook /\ prefs.outlookClientId /\ ~tokens["outlook"]

\* C9: when gmail or outlook is enabled, has a client id and is not
\* authorized, a background call fetches from no source and writes nothing;
\* and a call is skipped at the authorization checks only for such a source:
\* a disabled source or one without client id is not even checked.
C9_UnauthorizedSkipsPass ==
  \A p \in Slots :
    LET r == pass[p]
    IN r.kind = "bg" =>
         /\ (GmailBlocks \/ OutlookBlocks) =>
              /\ r.did \cap (SourceNames \cup {"cache", "lastRefresh"}) = {}
              /\ r.outcome # "ran"
         /\ "auth:gmail" \in r.did => prefs.enableGmail /\ prefs.gmailClientId
         /\ "auth:outlook" \in r.did => prefs.enableOutlook /\ prefs.outlookClientId
         /\ (r.outcome = "skipped" /\ r.did # {}) => (GmailBlocks \/ OutlookBlocks)

\* skipped after both checks: gmail is authorized, outlook is not
C9_Witness ==
  \E p \in Slots :
    /\ pass[p].kind = "bg" /\ pass[p].pc = "done" /\ pass[p].outcome = "skipped"
    /\ pass[p].did = {"auth:gmail", "auth:outlook"}
    /\ tokens["gmail"] /\ OutlookBlocks

\* C10: a call that is not skipped writes as the cache exactly the list it
\* aggregated, whatever the cache held, and then writes as last-refresh the
\* `now` it read at the throttle check, which it keeps through the fetches.
C10_PersistsResultThenNow ==
  [][\A p \in Slots :
       (pass[p].kind = "bg" /\ pass'[p] # pass[p]) =>
         /\ pass[p].pc = "throttle" => pass'[p].now = clock
         /\ pass[p].pc \notin {"throttle", "done"} => pass'[p].now = pass[p].now
         /\ (pass[p].pc = "await" /\ pass'[p].pc = "persisted") =>
              /\ store'.cache # None
              /\ Len(store'.cache[1].items) = Len(pass'[p].allOTPs)
              /\ \A i \in DOMAIN pass'[p].allOTPs :
                   /\ store'.cache[1].items[i].id = pass'[p].allOTPs[i].id
                   /\ StoredInstant(store'.cache[1].items[i]) = pass'[p].allOTPs[i].timestamp
              /\ store'.lastRefresh = store.lastRefresh
         /\ (pass[p].pc = "persisted") =>
              /\ store'.lastRefresh = Some(pass[p].now)
              /\ store'.cache = store.cache
              /\ pass'[p].outcome = "ran"
         /\ pass'[p].outcome = "ran" => pass[p].pc = "persisted"]_vars

\* a call that ran while time went by and replaced a cache of one entry by
\* the empty list
C10_Witness ==
  \E p \in Slots :
    /\ pass[p].kind = "bg" /\ pass[p].pc = "done" /\ pass[p].outcome = "ran"
    /\ store.lastRefresh = Some(pass[p].now)
    /\ pass[p].now < clock
    /\ pass[p].replaced # None /\ Len(pass[p].replaced[1].items) >= 1
    /\ store.cache = Some(Stringify(<<>>))

(***************************************************************************)
(* Properties of the refresh state.                                        *)
(***************************************************************************)
\* the list a cache payload decodes to, by id and instant
CacheHolds(payload, list) ==
  /\ Len(payload) = Len(list)
  /\ \A i \in DOMAIN list :
       /\ payload[i].id = list[i].id
       /\ StoredInstant(payload[i]) = list[i].timestamp

C12_LastWriterWins ==
  [][/\ \A p \in Slots :
          (Aggregated(pass'[p]) /\ store'.cacheBy = p) =>
            /\ store'.cache # None
            /\ CacheHolds(store'.cache[1].items, pass'[p].allOTPs)
     /\ store'.cache # store.cache =>
          \E p \in Slots :
            /\ pass[p].pc = "await" /\ pass'[p].pc = "persisted"
            /\ store'.cacheBy = p]_vars

\* two backgroundRefresh calls have both run to their end; the first started
\* alone, the second while the first was under way; the second wrote its
\* one entry first and the first then replaced it by its empty list
C12_Witness ==
  /\ pass[1].kind = "bg" /\ pass[1].pc = "done" /\ pass[1].outcome = "ran"
  /\ pass[2].kind = "bg" /\ pass[2].pc = "done" /\ pass[2].outcome = "ran"
  /\ pass[1].startedAfter = {} /\ pass[2].startedAfter = {1}
  /\ store.cacheBy = 1
  /\ pass[1].replaced # None /\ Len(pass[1].replaced[1].items) = 1
  /\ Len(pass[2].allOTPs) = 1
  /\ store.cache = Some(Stringify(<<>>))

\* the same with a loadOTPs call of the view started first and a
\* backgroundRefresh call started during it
C12_WitnessView ==
  /\ pass[1].kind = "view" /\ pass[1].pc = "done" /\ pass[1].outcome = "ran"
  /\ pass[2].kind = "bg" /\ pass[2].pc = "done" /\ pass[2].outcome = "ran"
  /\ pass[1].startedAfter = {} /\ pass[2].startedAfter = {1}
  /\ store.cacheBy = 1
  /\ Len(pass[2].allOTPs) = 1
  /\ store.cache = Some(Stringify(<<>>))

(***************************************************************************)
(* The cache read on its own: the view mounts and getCachedOTPs reads what *)
(* an earlier session left as the cache.                                   *)
(***************************************************************************)
\* longest list left as the cache
MaxCached == 3

\* entries with instants on and off a whole second
CachedEntries ==
  {MakeEntries(src, <<Msg(n, t)>>)[1] :
     src \in {"imessage", "outlook"}, n \in {1, 2}, t \in {0, 999, 1500, 86399999}}

\* the lists an aggregation pass may have left: sorted, up to MaxCached long
ResultLists == {SortDesc(l) : l \in StringsOver(CachedEntries, MaxCached)}

\* payloads that are not a serialized entry list
CorruptTexts ==
  LET e == SerializeEntry(CHOOSE x \in CachedEntries : TRUE)
  IN { JsonText("empty", <<>>), JsonText("malformed", <<>>), JsonText("scalar", <<>>),
       JsonText("object", <<>>),
       JsonText("array", <<[json |-> "null"]>>),
       JsonText("array", <<e, [json |-> "null"]>>),
       JsonText("array", <<[json |-> "number"]>>),
       JsonText("array", <<[json |-> "object"]>>),
       JsonText("array", <<e, [json |-> "object"]>>) }

InitCache ==
  /\ InitCommon
  /\ dbExists = TRUE
  /\ limit = 1
  /\ commands = {"view"}
  /\ prefs = AllOnPrefs
  /\ tokens = [gmail |-> TRUE, outlook |-> TRUE]
  /\ mailbox = QuietMailbox
  /\ \/ \E l \in ResultLists :
          /\ store = [cache |-> Some(Stringify(l)), lastRefresh |-> None, cacheBy |-> 0]
          /\ probe = Call("getCachedOTPs", l)
     \/ \E c \in {None} \cup {Some(x) : x \in CorruptTexts} :
          /\ store = [cache |-> c, lastRefresh |-> None, cacheBy |-> 0]
          /\ probe = Call("getCachedOTPs", <<>>)

\* view-2fa-codes.tsx lines 124-128: getCachedOTPs().then((cached) => {
\* if (cached.length > 0) setOTPs(cached) })
ShowCached ==
  /\ probe.fn = "getCachedOTPs" /\ probe.out = <<>>
  /\ LET cached == GetCachedOTPs(store.cache)
     IN /\ probe' = [probe EXCEPT !.out = <<cached>>]
        /\ view' = [view EXCEPT !.otps = IF Len(cached) > 0 THEN cached ELSE @]
  /\ UNCHANGED <<prefs, dbExists, tokens, tokenStore, mailbox, remote, commands, limit,
                 clock, store, pass>>

CacheNext == ShowCached

CacheSpec == InitCache /\ [][CacheNext]_vars

\* the cache is a serialized list of entries
IsEntryList(cached) ==
  /\ cached # None
  /\ cached[1].form = "array"
  /\ \A i \in DOMAIN cached[1].items : ~IsJunk(cached[1].items[i])

Returned(fn) == probe.fn = fn /\ probe.out # <<>>

\* C13: getCachedOTPs leaves the store as it is and returns the empty list
\* when there is no cache record and when the record is not a serialized
\* list of entries.
C13_CorruptCacheIsEmpty ==
  [][(probe'.fn = "getCachedOTPs" /\ probe'.out # probe.out) =>
       /\ store' = store
       /\ ~IsEntryList(store.cache) => Len(probe'.out[1]) = 0]_vars

\* C14: a list written as the cache and read back by getCachedOTPs has the
\* same length and, position by position, the same id, code, source and
\* instant.
C14_CacheRoundTrip ==
  (Returned("getCachedOTPs") /\ IsEntryList(store.cache)) =>
    LET list == probe.arg
        back == probe.out[1]
    IN /\ Len(back) = Len(list)
       /\ \A i \in DOMAIN list :
            /\ back[i].id = list[i].id
            /\ back[i].code = list[i].code
            /\ back[i].source = list[i].source
            /\ back[i].timestamp = list[i].timestamp

\* three entries read back and shown, two of them of one instant, which is
\* not a whole second
C14_Witness ==
  /\ Returned("getCachedOTPs") /\ IsEntryList(store.cache)
  /\ Len(probe.arg) = 3 /\ view.otps = probe.out[1]
  /\ probe.arg[1].timestamp = 86399999 /\ probe.arg[2].timestamp = 86399999
  /\ probe.arg[1].id # probe.arg[2].id
  /\ probe.arg[3].timestamp = 0

(***************************************************************************)
(* Properties of the sources.                                              *)
(***************************************************************************)
\* the source is switched off or lacks what it needs
Gated(src) ==
  CASE src = "imessage" -> ~prefs.enableIMessage \/ ~dbExists
    [] src = "gmail" -> ~prefs.enableGmail \/ ~prefs.gmailClientId
    [] src = "icloud" -> ~prefs.enableICloudMail \/ ~prefs.icloudCredentials
    [] src = "outlook" -> ~prefs.enableOutlook \/ ~prefs.outlookClientId

\* C15: fetchOTPs of a source that is disabled or not configured has
\* returned the empty list as soon as it is called: its promise is never
\* pending or rejected, and the source has asked for no token and made no
\* request, connection or query.
C15_GatedFetchIsNoOp ==
  \A p \in Slots : \A s \in SourceNames :
    (Gated(s) /\ pass[p].res[s].calls > 0) =>
      /\ pass[p].res[s].st = "fulfilled"
      /\ pass[p].res[s].val = <<>>
      /\ ~pass[p].res[s].io
      /\ ~pass[p].res[s].token

\* a pass has called all four sources: imessage is enabled without the
\* Messages database, gmail and icloud are enabled without client id and
\* credentials, outlook is disabled; the mailboxes hold messages
C15_Witness ==
  \E p \in Slots :
    /\ \A s \in SourceNames : Gated(s) /\ pass[p].res[s].calls = 1
    /\ prefs.enableIMessage /\ prefs.enableGmail /\ prefs.enableICloudMail
    /\ ~prefs.enableOutlook /\ prefs.outlookClientId
    /\ \A s \in SourceNames : mailbox[s] # <<>>
    /\ pass[p].pc = "done" /\ pass[p].outcome = "ran" /\ pass[p].allOTPs = <<>>

\* C16: the promise of fetchOTPs is never rejected, whichever step of the
\* source fails.
C16_FetchNeverRejects ==
  \A p \in Slots : \A s \in SourceNames : pass[p].res[s].st # "rejected"

(***************************************************************************)
(* markAsRead and deleteMessage of the gmail, outlook and icloud sources,  *)
(* called on one entry.                                                    *)
(***************************************************************************)
\* calls made on the entry
MaxCalls == 2

\* Gmail: POST .../modify {removeLabelIds: ["UNREAD"]} and POST .../trash;
\* Outlook: PATCH {isRead: true} and POST .../move {destinationId:
\* "deleteditems"}, which answers 404 for a message moved before
OAuthServe(src, box, op, id) ==
  IF src = "outlook" /\ id \in box.away THEN box
  ELSE IF op = "markAsRead" THEN [box EXCEPT !.read = @ \cup {id}]
  ELSE [box EXCEPT !.away = @ \cup {id}]

\* the INBOX without the message at position n (STORE +FLAGS \Deleted, EXPUNGE)
Expunge(inbox, n) == SubSeq(inbox, 1, n - 1) \o SubSeq(inbox, n + 1, Len(inbox))

\* ImapFlow messageFlagsAdd(range, flags) and messageDelete(range) called
\* without {uid: true}: `range` is a sequence number.  A number beyond the
\* mailbox is refused and the catch logs it.
ImapServe(inbox, op, n) ==
  IF n \notin 1..Len(inbox) THEN inbox
  ELSE IF op = "markAsRead" THEN [inbox EXCEPT ![n].seen = TRUE]
  ELSE Expunge(inbox, n)

\* how a call can go: gmail and outlook ask for the token ("null": none,
\* "throws": the token store rejects), then send the request, which is
\* served, refused (a non-OK answer, not looked at) or never arrives (fetch
\* rejects); icloud connects or not, and an error after the connection is
\* caught
CallOutcomes(src) ==
  IF src = "icloud" THEN {"noconnect", "served", "refused"}
  ELSE (IF tokens[src] THEN {"served", "refused", "unreachable"} ELSE {"null"})
         \cup StoreOutcomes

\* the guard on entry.messageId left out
SourceCall_unguarded(src, op, entry, o) ==
  [remote |-> remote, did |-> {IF src = "icloud" THEN "connect" ELSE "token"},
   raised |-> FALSE, last |-> o]

\* source.markAsRead(entry) / source.deleteMessage(entry): part_000 316-351,
\* outlook.ts 251-281, icloud.ts 319-358.  did: what the call touched.
SourceCall(src, op, entry, o) ==
  LET quiet == [remote |-> remote, did |-> {}, raised |-> FALSE, last |-> o]
  IN IF entry.messageId = None THEN [quiet EXCEPT !.last = "none"]
     ELSE IF src = "icloud"
       THEN CASE o = "noconnect" -> [quiet EXCEPT !.did = {"connect"}]
              [] o = "refused" -> [quiet EXCEPT !.did = {"connect", "request"}]
              [] o = "served" ->
                   [quiet EXCEPT !.did = {"connect", "request"},
                                 !.remote.icloud = ImapServe(@, op, entry.messageId[1])]
     ELSE CASE o = "null" -> [quiet EXCEPT !.did = {"token"}]
            [] o = "throws" -> [quiet EXCEPT !.did = {"token"}, !.raised = TRUE]
            [] o = "refused" -> [quiet EXCEPT !.did = {"token", "request"}]
            [] o = "unreachable" ->
                 [quiet EXCEPT !.did = {"token", "request"}, !.raised = TRUE]
            [] o = "served" ->
                 [quiet EXCEPT !.did = {"token", "request"},
                               !.remote[src] = OAuthServe(src, @, op, entry.messageId[1])]

Calls == IF probe.out = <<>> THEN 0 ELSE probe.out[1].n
ServedBefore == probe.out # <<>> /\ probe.out[1].served

\* one call of the method named by probe.fn on the entry probe.arg
CallMethod(op) ==
  /\ probe.fn = op
  /\ Calls < MaxCalls
  /\ \E o \in CallOutcomes(probe.arg.source) :
       LET r == SourceCall(probe.arg.source, op, probe.arg, o)
       IN /\ remote' = r.remote
          /\ probe' = [probe EXCEPT !.out =
                         <<[n |-> Calls + 1, served |-> ServedBefore \/ r.last = "served",
                            did |-> r.did, raised |-> r.raised, last |-> r.last]>>]
  /\ UNCHANGED <<prefs, dbExists, tokens, tokenStore, mailbox, commands, limit,
                 clock, store, view, pass>>

MarkAsRead == CallMethod("markAsRead")

DeleteMessage == CallMethod("deleteMessage")

\* the entries acted on: of each mail source, with and without messageId
ActedEntries ==
  LET made == {MakeEntries(src, <<Msg(n, 1500)>>)[1] :
                 src \in {"gmail", "icloud", "outlook"}, n \in {1, 2}}
  IN made \cup {[e EXCEPT !.messageId = None] : e \in made}

\* the INBOX: three messages whose UIDs are their sequence numbers, or two
\* whose UIDs are not
Inboxes ==
  { <<[uid |-> 1, seen |-> FALSE], [uid |-> 2, seen |-> FALSE], [uid |-> 3, seen |-> FALSE]>>,
    <<[uid |-> 2, seen |-> FALSE], [uid |-> 5, seen |-> FALSE]>> }

InitMessages ==
  /\ dbExists = TRUE
  /\ tokenStore \in {"sound", "faulty"}
  /\ limit = 1
  /\ commands = {"view"}
  /\ prefs = AllOnPrefs
  /\ tokens \in [{"gmail", "outlook"} -> BOOLEAN]
  /\ mailbox = QuietMailbox
  /\ clock = StartInstant
  /\ view = InitView
  /\ pass = [p \in Slots |-> IdlePass]
  /\ store = [cache |-> None, lastRefresh |-> None, cacheBy |-> 0]
  /\ \E inbox \in Inboxes : remote = [NoRemote EXCEPT !.icloud = inbox]
  /\ probe \in {Call(op, e) : op \in {"markAsRead", "deleteMessage"}, e \in ActedEntries}

MessageNext == MarkAsRead \/ DeleteMessage

MessageSpec == InitMessages /\ [][MessageNext]_vars

\* C17: a call on an entry without messageId touches nothing (no token, no
\* connection, no request) and returns; and once a call on an entry has been
\* served, a further call of the same method on it that is served raises
\* nothing and leaves the provider's side as it is.
C17_NoOpAndRepeatable ==
  [][probe'.out # probe.out =>
       /\ probe.arg.messageId = None =>
            /\ probe'.out[1].did = {} /\ ~probe'.out[1].raised
            /\ remote' = remote
       /\ (ServedBefore /\ probe'.out[1].last = "served") =>
            /\ ~probe'.out[1].raised
            /\ remote' = remote]_vars

\* the entries the sources of the running and finished passes handed back
Produced == UNION {Yielded(pass[p]) : p \in Slots}

\* the entries of the cache record
CachedItems ==
  IF store.cache = None \/ store.cache[1].form # "array" THEN {}
  ELSE {store.cache[1].items[i] : i \in DOMAIN store.cache[1].items}

\* C18: an entry handed back by a source carries that source's name as its
\* source, the native id of one of the provider's messages as messageId, and
\* the id "<source name>-<native id>"; two entries, of one pass or of
\* different passes, have the same id exactly when they come from the same
\* message of the same provider.
C18_EntryIdentity ==
  /\ \A p \in Slots, s \in SourceNames :
       \A i \in DOMAIN pass[p].res[s].val :
         LET e == pass[p].res[s].val[i]
         IN /\ e.source = s
            /\ \E k \in DOMAIN mailbox[s] :
                 /\ e.messageId = Some(mailbox[s][k].nid)
                 /\ e.id = SourceChars[s] \o <<"-">> \o Decimal(mailbox[s][k].nid)
  /\ \A e1 \in Produced :
       /\ \A e2 \in Produced :
            e1.id = e2.id <=> (e1.source = e2.source /\ e1.messageId = e2.messageId)
       /\ \A c \in CachedItems :
            e1.id = c.id <=> (e1.source = c.source /\ e1.messageId = c.messageId)

\* a pass fetched again a message that the cache holds from an earlier pass,
\* and gmail and outlook handed back messages with the same native id
C18_Witness ==
  \E p \in Slots :
    /\ pass[p].pc = "await"
    /\ \E e \in Yielded(pass[p]), c \in CachedItems : e.id = c.id
    /\ \E e1, e2 \in Yielded(pass[p]) :
         /\ e1.source = "gmail" /\ e2.source = "outlook"
         /\ e1.messageId = e2.messageId

\* the digits of code run upwards (step 1) or downwards (step -1) by one
Consecutive(code, step) ==
  \A i \in 1..(Len(code) - 1) : DigitVal[code[i + 1]] = DigitVal[code[i]] + step

\* C19: isValidOTPCode returns a boolean for every string, and true exactly
\* when the string is 4 to 8 digits, not all of them the same, that do not run
\* upwards or downwards by one and are not a four-digit number from 1900 to
\* 2100; a string of one repeated digit is rejected at every length, "123456",
\* "654321" and "2024" are rejected, and "583021" is accepted.
C19_ValidCodeCharacterised ==
  (probe.fn = "isValidOTPCode" /\ probe.out # <<>>) =>
    LET code == probe.arg
        valid == probe.out[1]
    IN /\ valid \in BOOLEAN
       /\ valid <=>
            /\ Len(code) \in 4..8
            /\ \A i \in DOMAIN code : code[i] \in {"0", "1", "2", "3", "4", "5", "6", "7", "8", "9"}
            /\ \E i, j \in DOMAIN code : code[i] # code[j]
            /\ ~Consecutive(code, 1) /\ ~Consecutive(code, -1)
            /\ Len(code) = 4 =>
                 LET year == 1000 * DigitVal[code[1]] + 100 * DigitVal[code[2]]
                               + 10 * DigitVal[code[3]] + DigitVal[code[4]]
                 IN year < 1900 \/ year > 2100
       /\ (\A i, j \in DOMAIN code : code[i] = code[j]) => ~valid
       /\ code \in { <<"1", "2", "3", "4", "5", "6">>, <<"6", "5", "4", "3", "2", "1">>,
                     <<"2", "0", "2", "4">> } => ~valid
       /\ code = <<"5", "8", "3", "0", "2", "1">> => valid

\* "583021" was accepted
C19_Witness ==
  /\ probe.fn = "isValidOTPCode"
  /\ probe.arg = <<"5", "8", "3", "0", "2", "1">>
  /\ probe.out = <<TRUE>>

\* a string of nine 8s, a string of three digits and "1999" were rejected
C19_WitnessRejected ==
  /\ probe.fn = "isValidOTPCode"
  /\ probe.arg \in { <<"8", "8", "8", "8", "8", "8", "8", "8", "8">>, <<"5", "8", "5">>,
                     <<"1", "9", "9", "9">> }
  /\ probe.out = <<FALSE>>

\* "Order #583921 has shipped"
OrderShipped ==
  <<"O", "r", "d", "e", "r", " ", "#", "5", "8", "3", "9", "2", "1", " ",
    "h", "a", "s", " ", "s", "h", "i", "p", "p", "e", "d">>

\* C20: extractOTP gives none for the empty text and for every text that
\* matches an exclusion pattern and holds no OTP indicator phrase, whatever
\* the labeled patterns would capture in it ("Order #583921 has shipped"
\* gives none); in a text that holds an indicator phrase a code is found
\* whenever a labeled or the standalone pattern captures a valid one,
\* exclusion pattern or not.
C20_ExclusionGate ==
  (probe.fn = "extractOTP" /\ probe.out # <<>>) =>
    LET text == probe.arg
        found == probe.out[1]
    IN /\ text = <<>> => found = None
       /\ (HasExclusionPattern(text) /\ ~HasOTPIndicator(text)) => found = None
       /\ text = OrderShipped => found = None
       /\ (HasOTPIndicator(text)
             /\ \E k \in {1, 2, 3, 4, 5} : ValidCaptures(k, text, 1) # <<>>)
            => found # None

\* a text with an exclusion pattern and no indicator phrase, in which a
\* labeled pattern captures a valid code, gave none
C20_Witness ==
  /\ probe.fn = "extractOTP"
  /\ HasExclusionPattern(probe.arg) /\ ~HasOTPIndicator(probe.arg)
  /\ FirstValid(LabeledPatterns, probe.arg) # None
  /\ probe.out = <<None>>

\* a text with an exclusion pattern and an indicator phrase gave a code
C20_WitnessOverridden ==
  /\ probe.fn = "extractOTP"
  /\ HasExclusionPattern(probe.arg) /\ HasOTPIndicator(probe.arg)
  /\ probe.out # <<>> /\ probe.out[1] # None

(***************************************************************************)
(* Properties of extractOTP.                                               *)
(***************************************************************************)
\* the positions from i on at which the exec loop of pattern k finds a match
\* whose capture isValidOTPCode accepts, the positions taken one by one from
\* left to right: a match at i is found when the matches before it have
\* ended (lastIndex <= i)
RECURSIVE AcceptedFrom(_, _, _, _)

AcceptedNext(k, s, i, lastIndex, m) ==
  IF lastIndex <= i /\ m # None
    THEN {j \in {i} : IsValidOTPCode(m[1].code)} \cup AcceptedFrom(k, s, i + 1, m[1].end)
  ELSE AcceptedFrom(k, s, i + 1, lastIndex)

AcceptedFrom(k, s, i, lastIndex) ==
  IF i > Len(s) THEN {} ELSE AcceptedNext(k, s, i, lastIndex, MatchAt(k, s, i))

AcceptedAt(k, s) == AcceptedFrom(k, s, 1, 1)

Least(S) == CHOOSE x \in S : \A y \in S : x <= y

\* extractOTP returns before it tries any pattern
RejectedEarly(text) ==
  text = <<>> \/ (HasExclusionPattern(text) /\ ~HasOTPIndicator(text))

\* the call of extractOTP has returned
Extraction == probe.fn = "extractOTP" /\ probe.out # <<>>

\* C21: when the text is not rejected early and a labeled pattern has an
\* accepted capture, extractOTP returns, with confidence 0.9, the leftmost
\* accepted capture of the first of the four labeled patterns, in their
\* declared order, that has one.
C21_FirstLabeledCapture ==
  Extraction =>
    LET text == probe.arg
        accepted == [k \in {1, 2, 3, 4} |-> AcceptedAt(k, text)]
        winners == {k \in {1, 2, 3, 4} : accepted[k] # {}}
    IN (~RejectedEarly(text) /\ winners # {}) =>
         LET k == Least(winners)
             i == Least(accepted[k])
         IN probe.out[1] =
              <<[code |-> MatchAt(k, text, i)[1].code, confidence |-> 90]>>

\* the capture returned is that of the first pattern, although the second
\* pattern has an accepted capture further left
C21_Witness ==
  /\ Extraction /\ ~RejectedEarly(probe.arg)
  /\ AcceptedAt(1, probe.arg) # {} /\ AcceptedAt(2, probe.arg) # {}
  /\ Least(AcceptedAt(2, probe.arg)) < Least(AcceptedAt(1, probe.arg))
  /\ probe.out[1] # None /\ probe.out[1][1].confidence = 90

\* the first match of the pattern was rejected by the validator and the
\* second returned
C21_WitnessSkipped ==
  /\ Extraction /\ ~RejectedEarly(probe.arg)
  /\ \E i \in DOMAIN probe.arg :
       /\ MatchAt(1, probe.arg, i) # None
       /\ ~IsValidOTPCode(MatchAt(1, probe.arg, i)[1].code)
       /\ i < Least(AcceptedAt(1, probe.arg) \cup {Len(probe.arg) + 1})
  /\ AcceptedAt(1, probe.arg) # {}
  /\ probe.out[1] # None

\* the digits, letters and underscore: the characters of a word
IsWordChar(c) ==
  c \in {"0", "1", "2", "3", "4", "5", "6", "7", "8", "9", "_"} \/ c \in Letters

\* the standalone runs of s that isValidOTPCode accepts, by their first
\* position: 4 to 8 digits with no word character before or after them
StandaloneRuns(s) ==
  {r \in {<<i, SubSeq(s, i, j)>> : i \in 1..Len(s), j \in 1..Len(s)} :
     LET i == r[1]
         j == r[1] + Len(r[2]) - 1
     IN /\ Len(r[2]) \in 4..8
        /\ \A n \in DOMAIN r[2] : r[2][n] \in {"0", "1", "2", "3", "4", "5", "6", "7", "8", "9"}
        /\ i = 1 \/ ~IsWordChar(s[i - 1])
        /\ j = Len(s) \/ ~IsWordChar(s[j + 1])
        /\ IsValidOTPCode(r[2])}

\* no labeled pattern has an accepted capture
NoLabeledCapture(text) == \A k \in {1, 2, 3, 4} : AcceptedAt(k, text) = {}

\* C22: when no labeled pattern has an accepted capture, extractOTP returns
\* none for a text without indicator phrase, whatever standalone runs it
\* holds; for a text with an indicator phrase it returns, with confidence
\* 0.6, the leftmost standalone run of 4 to 8 digits that the validator
\* accepts, and none when there is no such run.
C22_StandaloneNeedsIndicator ==
  (Extraction /\ NoLabeledCapture(probe.arg)) =>
    LET text == probe.arg
        runs == StandaloneRuns(text)
    IN IF HasOTPIndicator(text) /\ runs # {}
         THEN \E r \in runs :
                /\ \A q \in runs : r[1] <= q[1]
                /\ probe.out[1] = <<[code |-> r[2], confidence |-> 60]>>
         ELSE probe.out[1] = None

\* a text with an exclusion pattern, an indicator phrase and two standalone
\* runs, the first of them rejected by the validator, gave the second
C22_Witness ==
  /\ Extraction /\ NoLabeledCapture(probe.arg)
  /\ HasOTPIndicator(probe.arg)
  /\ probe.out[1] # None /\ probe.out[1][1].confidence = 60
  /\ \E i \in DOMAIN probe.arg :
       /\ StandaloneAt(probe.arg, i) # None
       /\ \A r \in StandaloneRuns(probe.arg) : i < r[1]

\* a text without indicator phrase and exclusion pattern that holds a valid
\* standalone run gave none
C22_WitnessNoIndicator ==
  /\ Extraction /\ NoLabeledCapture(probe.arg)
  /\ ~HasOTPIndicator(probe.arg) /\ ~HasExclusionPattern(probe.arg)
  /\ StandaloneRuns(probe.arg) # {}
  /\ probe.out = <<None>>

\* C23: for a text that holds an OTP indicator phrase and a standalone run of
\* 4 to 8 digits accepted by the validator, extractOTP returns a match,
\* whether or not an exclusion pattern or a labeled pattern matches.
C23_IndicatorAndRunGiveMatch ==
  (Extraction /\ HasOTPIndicator(probe.arg) /\ StandaloneRuns(probe.arg) # {}) =>
    probe.out[1] # None

\* such a text, which an exclusion pattern matches and no labeled pattern
\* does, gave a match
C23_Witness ==
  /\ Extraction /\ HasOTPIndicator(probe.arg) /\ StandaloneRuns(probe.arg) # {}
  /\ HasExclusionPattern(probe.arg)
  /\ \A k \in {1, 2, 3, 4}, i \in DOMAIN probe.arg : MatchAt(k, probe.arg, i) = None
  /\ probe.out[1] # None

\* such a text, which an exclusion pattern and a labeled pattern match, gave
\* a match
C23_WitnessLabeled ==
  /\ Extraction /\ HasOTPIndicator(probe.arg) /\ StandaloneRuns(probe.arg) # {}
  /\ HasExclusionPattern(probe.arg)
  /\ ~NoLabeledCapture(probe.arg)
  /\ probe.out[1] # None

(***************************************************************************)
(* extractOTP called again and again: the regular expressions are module   *)
(* constants, and a RegExp object keeps its lastIndex between calls.       *)
(* probe.regex holds the lastIndex of the exclusion patterns, of the       *)
(* labeled patterns and of the standalone pattern; probe.seen the texts    *)
(* given so far with the results returned.                                 *)
(***************************************************************************)
\* calls of extractOTP in a row
MaxExtractCalls == 2

FreshRegex == [exclusion |-> 0, labeled |-> 0, standalone |-> 0]

\* the exclusion patterns with the g flag: test searches from lastIndex on
\* and leaves lastIndex after the position found, 0 when nothing is found
TestExclusion_global(s, lastIndex) ==
  LET hits == {i \in (lastIndex + 1)..Len(s) : ExclusionAt(ToLowerCase(s), i)}
  IN IF hits = {} THEN [found |-> FALSE, lastIndex |-> 0]
     ELSE [found |-> TRUE, lastIndex |-> CHOOSE i \in hits : \A j \in hits : i <= j]

\* EXCLUSION_PATTERNS.some((pattern) => pattern.test(text)): the patterns
\* have the i flag only, and test on a RegExp without g or y searches from
\* the start and leaves lastIndex as it is
TestExclusion(s, lastIndex) ==
  [found |-> HasExclusionPattern(s), lastIndex |-> lastIndex]

\* lines 574-613 with the regular expressions in state regex: every loop
\* sets lastIndex to 0 before it starts (lines 577, 596: FirstValid and
\* ValidCaptures scan from position 1) and ends when exec returns null,
\* which leaves lastIndex at 0; the standalone loop runs with an indicator
\* and no labeled match
ScanWith(text, regex, hasIndicator, labeled) ==
  [result |-> Extracted(labeled, ValidCaptures(StandalonePattern, text, 1), hasIndicator),
   regex |-> [regex EXCEPT !.labeled = 0,
                           !.standalone = IF labeled = None /\ hasIndicator THEN 0 ELSE @]]

\* lines 570-613, after hasExclusionPattern has run
GateWith(text, regex, tested, hasIndicator) ==
  IF tested.found /\ ~hasIndicator
    THEN [result |-> None, regex |-> [regex EXCEPT !.exclusion = tested.lastIndex]]
  ELSE ScanWith(text, [regex EXCEPT !.exclusion = tested.lastIndex], hasIndicator,
                FirstValid(LabeledPatterns, text))

\* extractOTP(text) with the regular expressions in state regex: the result
\* and the state they are left in
ExtractWith(text, regex) ==
  IF text = <<>> THEN [result |-> None, regex |-> regex]
  ELSE GateWith(text, regex, TestExclusion(text, regex.exclusion), HasOTPIndicator(text))

RepeatParts ==
  [exclusion |-> {<<>>, <<"r", "e", "c", "e", "i", "p", "t", " ">>},
   indicator |-> {<<>>, <<"o", "t", "p", " ">>},
   code |-> {<<>>, <<"P", "I", "N", "-", "7", "3", "9", "1">>, <<"4", "8", "2", "1">>}]

\* the texts of the repeated calls
RepeatTexts ==
  {a \o b \o c : a \in RepeatParts.exclusion, b \in RepeatParts.indicator,
                 c \in RepeatParts.code}

InitRepeat ==
  /\ InitCommon
  /\ dbExists = TRUE
  /\ limit = 1
  /\ commands = {"view"}
  /\ prefs = AllOnPrefs
  /\ store = [cache |-> None, lastRefresh |-> None, cacheBy |-> 0]
  /\ tokens = [gmail |-> TRUE, outlook |-> TRUE]
  /\ mailbox = QuietMailbox
  /\ probe = [fn |-> "extractOTP", arg |-> <<>>, out |-> <<>>, regex |-> FreshRegex,
              seen |-> {}, calls |-> 0]

\* one more call of extractOTP, on any text
ExtractAgain ==
  /\ probe.fn = "extractOTP" /\ probe.calls < MaxExtractCalls
  /\ \E text \in RepeatTexts :
       LET r == ExtractWith(text, probe.regex)
       IN probe' = [probe EXCEPT !.arg = text, !.out = <<r.result>>, !.regex = r.regex,
                                 !.seen = @ \cup {<<text, r.result>>},
                                 !.calls = @ + 1]
  /\ UNCHANGED <<prefs, dbExists, tokens, tokenStore, mailbox, remote, commands, limit,
                 clock, store, view, pass>>

RepeatNext == ExtractAgain

RepeatSpec == InitRepeat /\ [][RepeatNext]_vars

\* C24: whatever calls came before, extractOTP returns for a text what it
\* returned for that text before, which is what it returns for it when the
\* regular expressions are fresh; every call leaves them as it found them.
C24_ExtractIsPure ==
  /\ probe.regex = FreshRegex
  /\ \A a \in probe.seen, b \in probe.seen : a[1] = b[1] => a[2] = b[2]
  /\ \A a \in probe.seen : a[2] = ExtractOTP(a[1])

\* a text with a labeled code that an exclusion pattern rejects was given
\* twice in a row and gave none both times
C24_Witness ==
  /\ probe.calls = 2
  /\ Cardinality(probe.seen) = 1
  /\ HasExclusionPattern(probe.arg) /\ ~HasOTPIndicator(probe.arg)
  /\ FirstValid(LabeledPatterns, probe.arg) # None
  /\ probe.out = <<None>>

\* code stands somewhere in text
IsSubstring(code, text) ==
  \E i \in 1..(Len(text) - Len(code) + 1) : SubSeq(text, i, i + Len(code) - 1) = code

\* 4 to 8 digits that isValidOTPCode accepts
IsAcceptedCode(code) ==
  /\ Len(code) \in 4..8
  /\ \A i \in DOMAIN code : code[i] \in {"0", "1", "2", "3", "4", "5", "6", "7", "8", "9"}
  /\ IsValidOTPCode(code)

\* C25: the code of a match returned by extractOTP is a substring of the
\* text, 4 to 8 digits long and accepted by isValidOTPCode, and its
\* confidence is 0.9 or 0.6; so is the code of every entry a source makes
\* of its messages.
C25_CodeIsAcceptedSubstring ==
  /\ (Extraction /\ probe.out[1] # None) =>
       /\ IsSubstring(probe.out[1][1].code, probe.arg)
       /\ IsAcceptedCode(probe.out[1][1].code)
       /\ probe.out[1][1].confidence \in {90, 60}
  /\ \A s \in SourceNames :
       LET made == MakeEntries(s, mailbox[s])
       IN \A i \in DOMAIN made :
            /\ IsAcceptedCode(made[i].code)
            /\ \E k \in DOMAIN mailbox[s] : IsSubstring(made[i].code, mailbox[s][k].text)

\* a match was returned for a text in which the validator rejected a capture
\* of a labeled pattern
C25_Witness ==
  /\ Extraction /\ probe.out[1] # None
  /\ \E k \in {1, 2, 3, 4}, i \in DOMAIN probe.arg :
       /\ MatchAt(k, probe.arg, i) # None
       /\ ~IsValidOTPCode(MatchAt(k, probe.arg, i)[1].code)

\* the digits from position i of s on
DigitsFrom(s, i) == SubSeq(s, i, i + DigitRun(s, i) - 1)

\* the numbers the text presents as an amount or as an order, tracking or
\* invoice number: the digits after "$", the four or more digits before a
\* currency code, the digits after order, tracking or invoice
ExcludedNumbers(s) ==
  LET low == ToLowerCase(s)
  IN {DigitsFrom(s, i + 1) : i \in {j \in DOMAIN s : s[j] = "$" /\ DigitRun(s, j + 1) >= 1}}
     \cup {DigitsFrom(s, i) :
             i \in {j \in DOMAIN s :
                      /\ DigitRun(s, j) >= 4
                      /\ j = 1 \/ s[j - 1] \notin Digits
                      /\ \E c \in {<<"u", "s", "d">>, <<"e", "u", "r">>, <<"g", "b", "p">>,
                                   <<"c", "a", "d">>, <<"a", "u", "d">>} :
                           WordAt(low, SkipWhile(low, j + DigitRun(s, j), Blanks), c)}}
     \cup {DigitsFrom(s, i) :
             i \in {j \in DOMAIN s :
                      /\ DigitRun(s, j) >= 1
                      /\ j = 1 \/ s[j - 1] \notin Digits
                      /\ \E w \in {<<"o", "r", "d", "e", "r">>,
                                   <<"t", "r", "a", "c", "k", "i", "n", "g">>,
                                   <<"i", "n", "v", "o", "i", "c", "e">>} :
                           \E a \in DOMAIN s :
                             /\ WordAt(low, a, w)
                             /\ \A b \in (a + Len(w))..(j - 1) : s[b] \in Blanks \cup {"#"}
                             /\ Cardinality({b \in (a + Len(w))..(j - 1) : s[b] = "#"}) <= 1}}

\* C26: the code extractOTP returns is never a number that the text presents
\* as a currency amount or as an order, tracking or invoice number.
C26_LookAlikesRejected ==
  (Extraction /\ probe.out[1] # None) =>
    probe.out[1][1].code \notin ExcludedNumbers(probe.arg)

\* the pass in slot p computes its lookback window in this step: line 46 of
\* backgroundRefresh, line 87 of the view
ComputesLookback(p) ==
  \/ pass[p].pc = "throttle" /\ pass'[p].pc \notin {"throttle", "done"}
  \/ pass[p].kind = "idle" /\ pass'[p].kind = "view"

C27_WitnessView ==
  \E p \in Slots :
    /\ pass[p].kind = "view" /\ pass[p].pc = "persisted"
    /\ prefs.lookbackMinutes = <<"7", "m">>
    /\ pass[p].lookback = 7

\* C28: every source that gets as far as computing its cutoff instant (it is
\* switched on and configured, and has started its query or request) was
\* called with a positive lookback.
C28_PositiveLookback ==
  \A p \in Slots : \A s \in SourceNames :
    pass[p].res[s].io => pass[p].res[s].arg > 0

\* C29: when two loadOTPs calls of the view have both run to their end and
\* one of them started while the other was under way, the displayed list and
\* the cache are the result of the one that started last.
C29_LastStartedLoadWins ==
  \A p \in Slots : \A q \in Slots \ {p} :
    ( /\ pass[p].kind = "view" /\ pass[p].pc = "done" /\ pass[p].outcome = "ran"
      /\ pass[q].kind = "view" /\ pass[q].pc = "done" /\ pass[q].outcome = "ran"
      /\ q \in pass[p].startedAfter )
    => /\ view.otps = pass[p].allOTPs
       /\ store.cache = Some(Stringify(pass[p].allOTPs))

\* C30: with one backgroundRefresh call at a time and an interval that is a
\* number other than 0, a call that runs its pass to the end read its now at
\* least the interval after the now of the call that ran before it (the
\* last-refresh record, which that call wrote from its own now), and leaves
\* its own now as the record; a call whose now is exactly the interval after
\* the record is not skipped by the throttle.
C30_RunsAtLeastIntervalApart ==
  [][\A p \in Slots :
       /\ ( /\ pass[p].pc = "throttle" /\ pass'[p].pc # "throttle"
            /\ ~pass[p].interval.nan
            /\ pass[p].last # None
            /\ pass'[p].now - pass[p].last[1] = pass[p].interval.v * MsPerMinute )
          => pass'[p].outcome # "skipped"
       /\ ( /\ pass[p].kind = "bg" /\ pass[p].pc = "persisted"
            /\ pass'[p].outcome = "ran"
            /\ ~pass[p].interval.nan
            /\ store.lastRefresh # None )
          => /\ pass[p].now - store.lastRefresh[1] >= pass[p].interval.v * MsPerMinute
             /\ store'.lastRefresh = Some(pass[p].now)]_vars

\* a call ran its pass exactly one interval after the call before it, which
\* ran in this session
C30_Witness ==
  \E p \in Slots :
    /\ pass[p].kind = "bg" /\ pass[p].pc = "done" /\ pass[p].outcome = "ran"
    /\ pass[p].interval.v = 1
    /\ pass[p].last = Some(StartInstant)
    /\ pass[p].now = StartInstant + MsPerMinute
    /\ store.lastRefresh = Some(pass[p].now)

\* a call ran its pass more than one interval after the record it found
C30_WitnessLater ==
  \E p \in Slots :
    /\ pass[p].kind = "bg" /\ pass[p].pc = "done" /\ pass[p].outcome = "ran"
    /\ pass[p].interval.v = 1
    /\ pass[p].last # None
    /\ pass[p].now - pass[p].last[1] > MsPerMinute

(***************************************************************************)
(* Overlapping backgroundRefresh calls.                                    *)
(***************************************************************************)
\* the call in slot q has passed its throttle test and has not yet written
\* the last-refresh record
PastThrottle(q) ==
  /\ pass[q].kind = "bg"
  /\ pass[q].pc \in {"gmailAuth", "outlookAuth", "invoke", "await", "persisted"}

\* C31: a backgroundRefresh call that makes its throttle test while another
\* call, which read the same last-refresh record, is past its own test and
\* has not yet written the record, is not skipped either; and every call that
\* gets to the end of its fan-out writes the cache, whatever the other call
\* is doing.
C31_NoSingleFlight ==
  [][\A p \in Slots : \A q \in Slots \ {p} :
       /\ ( /\ pass[p].pc = "throttle" /\ pass'[p].pc # "throttle"
            /\ PastThrottle(q)
            /\ pass[p].last = pass[q].last )
          => /\ pass'[p].outcome # "skipped"
             /\ pass'[p].pc \in {"gmailAuth", "outlookAuth", "invoke"}
       /\ ( /\ pass[p].kind = "bg" /\ pass[p].pc = "await" /\ pass'[p].pc # "await"
            /\ PastThrottle(q) )
          => /\ pass'[p].pc = "persisted"
             /\ store'.cache = Some(Stringify(pass'[p].allOTPs))]_vars

\* two backgroundRefresh calls, the second started while the first was under
\* way, have both run a pass and written the cache and the record, with less
\* than the interval of one minute between their instants
C31_Witness ==
  /\ \A p \in Slots :
       /\ pass[p].kind = "bg" /\ pass[p].pc = "done" /\ pass[p].outcome = "ran"
       /\ {"cache", "lastRefresh"} \subseteq pass[p].did
       /\ pass[p].interval.v = 1
  /\ pass[2].startedAfter = {1}
  /\ pass[2].now - pass[1].now < MsPerMinute
  /\ pass[1].now - pass[2].now < MsPerMinute

(***************************************************************************)
(* A pass in which no source gives an entry.                               *)
(***************************************************************************)
\* every source of the call has settled without an entry: it was switched
\* off, returned [], failed and returned [], or rejected
NothingFetched(r) ==
  \A s \in SourceNames :
    r.res[s].st \in {"fulfilled", "rejected"} /\ r.res[s].val = <<>>

\* C32: a backgroundRefresh pass whose sources all failed or returned nothing
\* writes the empty list as the cache, over whatever the cache held, and then
\* the now it read as the last-refresh record.
C32_EmptyPassReplacesCache ==
  [][\A p \in Slots :
       /\ ( /\ pass[p].kind = "bg" /\ pass[p].pc = "await" /\ pass'[p].pc # "await"
            /\ NothingFetched(pass[p]) )
          => /\ store'.cache = Some(Stringify(<<>>))
             /\ pass'[p].pc = "persisted" /\ pass'[p].allOTPs = <<>>
       /\ ( /\ pass[p].kind = "bg" /\ pass[p].pc = "persisted" /\ pass'[p].pc # "persisted"
            /\ NothingFetched(pass[p]) )
          => /\ store'.lastRefresh = Some(pass[p].now)
             /\ store'.cache = Some(Stringify(<<>>))
             /\ pass'[p].outcome = "ran"]_vars

\* a pass whose request failed has replaced a cache of one entry or more by
\* the empty list and moved the record forward to its now
C32_Witness ==
  \E p \in Slots :
    /\ pass[p].kind = "bg" /\ pass[p].pc = "done" /\ pass[p].outcome = "ran"
    /\ NothingFetched(pass[p])
    /\ \E s \in SourceNames : pass[p].res[s].io
    /\ pass[p].replaced # None /\ Len(pass[p].replaced[1].items) >= 1
    /\ store.cache = Some(Stringify(<<>>))
    /\ pass[p].last # None /\ pass[p].last[1] < pass[p].now
    /\ store.lastRefresh = Some(pass[p].now)

\* the same for a pass one of whose fetches rejected
C32_WitnessRejected ==
  \E p \in Slots :
    /\ pass[p].kind = "bg" /\ pass[p].pc = "done" /\ pass[p].outcome = "ran"
    /\ NothingFetched(pass[p])
    /\ \E s \in SourceNames : pass[p].res[s].st = "rejected"
    /\ pass[p].replaced # None /\ Len(pass[p].replaced[1].items) >= 1
    /\ store.cache = Some(Stringify(<<>>))

\* C33: the last-refresh record, once written, is never replaced by an
\* earlier instant and never removed.
C33_LastRefreshNeverDecreases ==
  [][store.lastRefresh # None =>
       /\ store'.lastRefresh # None
       /\ store'.lastRefresh[1] >= store.lastRefresh[1]]_vars

\* C34: when two backgroundRefresh calls have both run their pass to the
\* end, the cache and the last-refresh record come from the same call: the
\* call that wrote the cache last is one whose now is the record.
C34_CacheAndRecordFromOnePass ==
  (\A p \in Slots :
     pass[p].kind = "bg" /\ pass[p].pc = "done" /\ pass[p].outcome = "ran")
  => \E p \in Slots :
       /\ store.cacheBy = p
       /\ store.cache = Some(Stringify(pass[p].allOTPs))
       /\ store.lastRefresh = Some(pass[p].now)

(***************************************************************************)
(* The cache and the authorization of the OAuth sources.                   *)
(***************************************************************************)
\* an OAuth source that is switched on and has its client id holds no token
Unauthorized(src) == NeedsAuthCheck(src) /\ ~tokens[src]

\* C35 as stated: no call, of backgroundRefresh or of loadOTPs, writes the
\* cache while gmail or outlook is switched on, configured and unauthorized.
C35_NoCacheWriteUnauthorized ==
  \A p \in Slots :
    "cache" \in pass[p].did => ~Unauthorized("gmail") /\ ~Unauthorized("outlook")

\* C35: a backgroundRefresh call never writes the cache while gmail or
\* outlook is switched on, configured and unauthorized.  A loadOTPs call of
\* the view does: it records the answer of each authorization check in the
\* view's flags, calls every source all the same and writes the list of the
\* others as the cache.
C35_OnlySchedulerHoldsBack ==
  \A p \in Slots :
    /\ (pass[p].kind = "bg" /\ "cache" \in pass[p].did)
         => ~Unauthorized("gmail") /\ ~Unauthorized("outlook")
    /\ (pass[p].kind = "view" /\ pass[p].pc \in {"invoke", "await", "persisted"})
         => /\ NeedsAuthCheck("gmail") => view.gmailAuthorized = tokens["gmail"]
            /\ NeedsAuthCheck("outlook") => view.outlookAuthorized = tokens["outlook"]
    /\ (pass[p].kind = "view" /\ pass[p].pc = "persisted")
         => /\ "cache" \in pass[p].did
            /\ store.cache = Some(Stringify(pass[p].allOTPs))

\* a backgroundRefresh call found outlook unauthorized after gmail had
\* answered, and returned without a fetch and without a cache write
C35_Witness ==
  \E p \in Slots :
    /\ pass[p].kind = "bg" /\ pass[p].pc = "done" /\ pass[p].outcome = "skipped"
    /\ Unauthorized("outlook") /\ ~Unauthorized("gmail")
    /\ {"auth:gmail", "auth:outlook"} \subseteq pass[p].did
    /\ "cache" \notin pass[p].did
    /\ store.cache = None

\* a loadOTPs call has written the entry of outlook as the cache while gmail
\* was unauthorized
C35_WitnessView ==
  \E p \in Slots :
    /\ pass[p].kind = "view" /\ pass[p].pc = "persisted"
    /\ Unauthorized("gmail") /\ ~view.gmailAuthorized
    /\ Len(pass[p].allOTPs) = 1
    /\ store.cache = Some(Stringify(pass[p].allOTPs))

(***************************************************************************)
(* The view mounts: view-2fa-codes.tsx 122-139.  The effect calls          *)
(* getCachedOTPs() and, in the same turn, loadOTPs(); the timer calls      *)
(* loadOTPs() again.  The host answers LocalStorage.getItem at some point  *)
(* and the answer reaches the .then callback at some later point; the code *)
(* fixes no order between these and the steps of the load.                 *)
(***************************************************************************)
\* the list an earlier session left as the cache
OlderList == MakeEntries("outlook", <<Msg(2, 999)>>)

InitMount ==
  /\ dbExists = TRUE
  /\ tokenStore = "sound"
  /\ remote = NoRemote
  /\ probe = NoProbe
  /\ clock = StartInstant
  /\ view = InitView
  /\ pass = [p \in Slots |-> IdlePass]
  /\ limit = 1
  /\ commands = {"view"}
  /\ prefs = [AllOnPrefs EXCEPT !.enableIMessage = FALSE, !.enableICloudMail = FALSE]
  /\ \E l \in {<<>>, OlderList} :
       store = [cache |-> Some(Stringify(l)), lastRefresh |-> None, cacheBy |-> 0]
  /\ tokens = [gmail |-> TRUE, outlook |-> TRUE]
  /\ mailbox = QuietMailbox

\* lines 124-131: getCachedOTPs() sends its getItem, then loadOTPs() starts
Mount(p) ==
  /\ probe = NoProbe
  /\ CanStart(p, "view")
  /\ probe' = Call("getCachedOTPs", <<>>)
  /\ view' = [view EXCEPT !.isLoading = TRUE]
  /\ pass' = [pass EXCEPT ![p] =
                [IdlePass EXCEPT !.kind = "view", !.startedAfter = Running,
                                 !.lookback = LookbackOf(prefs.lookbackMinutes),
                                 !.pc = AfterDecision]]
  /\ UNCHANGED <<prefs, dbExists, tokens, tokenStore, mailbox, remote, commands, limit, clock, store>>

\* background-refresh.ts 16: the host reads the record for getItem
MountRead ==
  /\ probe.fn = "getCachedOTPs" /\ probe.arg = <<>>
  /\ probe' = [probe EXCEPT !.arg = <<store.cache>>]
  /\ UNCHANGED <<prefs, dbExists, tokens, tokenStore, mailbox, remote, commands, limit, clock, store, view, pass>>

\* background-refresh.ts 17-27 and view 124-128: the answer arrives,
\* getCachedOTPs returns its list and the callback shows it when not empty
MountShow ==
  /\ probe.fn = "getCachedOTPs" /\ probe.arg # <<>> /\ probe.out = <<>>
  /\ LET cached == GetCachedOTPs(probe.arg[1])
     IN /\ probe' = [probe EXCEPT !.out = <<cached>>]
        /\ view' = [view EXCEPT !.otps = IF Len(cached) > 0 THEN cached ELSE @]
  /\ UNCHANGED <<prefs, dbExists, tokens, tokenStore, mailbox, remote, commands, limit, clock, store, pass>>

\* lines 134-136 and the Refresh action: a later loadOTPs()
LoadAgain(p) ==
  /\ probe.fn = "getCachedOTPs"
  /\ LoadOTPs(p)

MountNext ==
  \/ \E p \in Slots : Mount(p)
  \/ MountRead
  \/ MountShow
  \/ \E p \in Slots : LoadAgain(p)
  \/ \E p \in Slots : GmailAuthCheck(p)
  \/ \E p \in Slots : OutlookAuthCheck(p)
  \/ \E p \in Slots : InvokeFetch(p)
  \/ \E p \in Slots : \E s \in SourceNames : SettleFetch(p, s)
  \/ \E p \in Slots : Aggregate(p)
  \/ \E p \in Slots : SetOTPs(p)
  \/ \E p \in Slots : Return(p)

MountSpec == InitMount /\ [][MountNext]_vars

\* a loadOTPs call has displayed its result: it wrote the cache and is past
\* setOTPs
FreshShown == store.cacheBy # 0 /\ \A p \in Slots : pass[p].pc # "persisted"

\* C36: once a load has displayed its result, the callback of the cache read
\* made at mount leaves the displayed list as it is.
C36_CachedNeverReplacesFresh ==
  [][(FreshShown /\ probe.fn = "getCachedOTPs" /\ probe.out = <<>> /\ probe'.out # <<>>)
       => view'.otps = view.otps]_vars

(***************************************************************************)
(* handleDelete and handleCopy of the view, called on one entry of the     *)
(* displayed list: view-2fa-codes.tsx 141-169 and 190-219.                 *)
(***************************************************************************)
\* entry.source === "gmail" ? gmailSource : entry.source === "outlook" ?
\* outlookSource : icloudSource
SourceOf(entry) ==
  IF entry.source = "gmail" THEN "gmail"
  ELSE IF entry.source = "outlook" THEN "outlook" ELSE "icloud"

\* current.filter((o) => o.id !== entry.id)
Without(list, id) == SelectSeq(list, LAMBDA o : o.id # id)

\* where a handler stands and the toast it has set
Handled(stage, toast) == <<[stage |-> stage, toast |-> toast]>>

\* handleDelete, lines 190-219: the alert is answered, deleteMessage is
\* awaited inside the try; when it returns the entry is filtered out and the
\* toast says "Message deleted", when it throws the toast says "Failed to
\* delete message"
HandleDelete ==
  /\ probe.fn = "handleDelete" /\ probe.out = <<>>
  /\ \E confirmed \in BOOLEAN :
       IF ~confirmed
         THEN /\ probe' = [probe EXCEPT !.out = Handled("done", "none")]
              /\ UNCHANGED <<remote, view>>
       ELSE \E o \in CallOutcomes(SourceOf(probe.arg)) :
              LET r == SourceCall(SourceOf(probe.arg), "deleteMessage", probe.arg, o)
              IN /\ remote' = r.remote
                 /\ view' = [view EXCEPT !.otps = IF r.raised THEN @
                                                  ELSE Without(@, probe.arg.id)]
                 /\ probe' = [probe EXCEPT !.out =
                                Handled("done", IF r.raised THEN "Failed to delete message"
                                                ELSE "Message deleted")]
  /\ UNCHANGED <<prefs, dbExists, tokens, tokenStore, mailbox, commands, limit,
                 clock, store, pass>>

\* handleCopy, lines 143-156: the code is copied; with the markAsRead
\* preference the source's markAsRead is awaited and its error swallowed
CopyMarkAsRead ==
  /\ probe.fn = "handleCopy" /\ probe.out = <<>>
  /\ IF prefs.markAsRead
       THEN \E o \in CallOutcomes(SourceOf(probe.arg)) :
              remote' = SourceCall(SourceOf(probe.arg), "markAsRead", probe.arg, o).remote
     ELSE remote' = remote
  /\ probe' = [probe EXCEPT !.out = Handled("marked", "none")]
  /\ UNCHANGED <<prefs, dbExists, tokens, tokenStore, mailbox, commands, limit,
                 clock, store, view, pass>>

\* handleCopy, lines 158-165: with the autoDelete preference deleteMessage is
\* awaited; when it returns the entry is filtered out, when it throws
\* nothing is done
CopyDelete ==
  /\ probe.fn = "handleCopy" /\ probe.out = Handled("marked", "none")
  /\ IF prefs.autoDelete
       THEN \E o \in CallOutcomes(SourceOf(probe.arg)) :
              LET r == SourceCall(SourceOf(probe.arg), "deleteMessage", probe.arg, o)
              IN /\ remote' = r.remote
                 /\ view' = [view EXCEPT !.otps = IF r.raised THEN @
                                                  ELSE Without(@, probe.arg.id)]
     ELSE UNCHANGED <<remote, view>>
  /\ probe' = [probe EXCEPT !.out = Handled("done", "none")]
  /\ UNCHANGED <<prefs, dbExists, tokens, tokenStore, mailbox, commands, limit,
                 clock, store, pass>>

\* the view shows the entry acted on and an entry of imessage
InitHandlers ==
  /\ dbExists = TRUE
  /\ tokenStore \in {"sound", "faulty"}
  /\ limit = 1
  /\ commands = {"view"}
  /\ \E m \in BOOLEAN, d \in BOOLEAN :
       prefs = AllOnPrefs @@ [markAsRead |-> m, autoDelete |-> d]
  /\ tokens \in [{"gmail", "outlook"} -> BOOLEAN]
  /\ mailbox = QuietMailbox
  /\ clock = StartInstant
  /\ pass = [p \in Slots |-> IdlePass]
  /\ store = [cache |-> None, lastRefresh |-> None, cacheBy |-> 0]
  /\ \E inbox \in Inboxes : remote = [NoRemote EXCEPT !.icloud = inbox]
  /\ \E op \in {"handleDelete", "handleCopy"}, e \in ActedEntries :
       /\ probe = Call(op, e)
       /\ view = [InitView EXCEPT !.isLoading = FALSE,
                                  !.otps = <<e>> \o MakeEntries("imessage", <<Msg(7, 2500)>>)]

HandlerNext == HandleDelete \/ CopyMarkAsRead \/ CopyDelete

HandlerSpec == InitHandlers /\ [][HandlerNext]_vars

Shows(list, id) == \E i \in DOMAIN list : list[i].id = id

\* the provider's side loses the entry's message in this step: gmail and
\* outlook put it away, the icloud INBOX no longer holds its UID
ProviderDeletes ==
  /\ probe.arg.messageId # None
  /\ LET nid == probe.arg.messageId[1]
         src == SourceOf(probe.arg)
     IN IF src = "icloud"
          THEN /\ \E k \in DOMAIN remote.icloud : remote.icloud[k].uid = nid
               /\ \A k \in DOMAIN remote'.icloud : remote'.icloud[k].uid # nid
        ELSE nid \notin remote[src].away /\ nid \in remote'[src].away

\* C37: handleDelete and handleCopy take the entry out of the displayed
\* list, and handleDelete reports "Message deleted", only in a step in which
\* the provider deleted or trashed the entry's message.
C37_RemovedOnlyIfDeleted ==
  [][( \/ Shows(view.otps, probe.arg.id) /\ ~Shows(view'.otps, probe.arg.id)
       \/ probe'.out = Handled("done", "Message deleted") /\ probe.out = <<>> )
       => ProviderDeletes]_vars

\* C38: with an interval preference that is absent or not a number, a
\* backgroundRefresh call is not ended by the test for 0 nor by the throttle,
\* however recent the last refresh: it goes on to the authorization checks,
\* and it ends skipped only when gmail or outlook is switched on, configured
\* and unauthorized; otherwise it calls every source.
C38_UnparsedIntervalNeverThrottles ==
  ParseInt(prefs.backgroundRefreshInterval).nan =>
    \A p \in Slots :
      pass[p].kind = "bg" =>
        /\ pass[p].interval.nan
        /\ (pass[p].pc = "done" /\ pass[p].outcome = "skipped") =>
             \/ "auth:gmail" \in pass[p].did /\ GmailBlocks
             \/ "auth:outlook" \in pass[p].did /\ OutlookBlocks
        /\ (pass[p].pc \in {"await", "persisted"} \/ pass[p].outcome = "ran") =>
             \A s \in SourceNames : pass[p].res[s].calls = 1

\* a call with an absent interval has run a pass half a minute after the
\* last refresh
C38_Witness ==
  \E p \in Slots :
    /\ prefs.backgroundRefreshInterval = Undefined
    /\ pass[p].kind = "bg" /\ pass[p].pc = "done" /\ pass[p].outcome = "ran"
    /\ pass[p].last # None /\ pass[p].now - pass[p].last[1] = TickMs
    /\ "cache" \in pass[p].did
    /\ store.lastRefresh = Some(pass[p].now)

\* a call with an empty interval has passed the throttle and is skipped for
\* the missing gmail token
C38_WitnessUnauthorized ==
  \E p \in Slots :
    /\ prefs.backgroundRefreshInterval = <<>>
    /\ pass[p].kind = "bg" /\ pass[p].pc = "done" /\ pass[p].outcome = "skipped"
    /\ pass[p].last # None
    /\ GmailBlocks /\ "auth:gmail" \in pass[p].did

\* the code stands in the text at position i as a whole run of digits: the
\* characters before and after it, where there are any, are not digits
WholeRunAt(code, text, i) ==
  /\ SubSeq(text, i, i + Len(code) - 1) = code
  /\ i > 1 => text[i - 1] \notin Digits
  /\ i + Len(code) <= Len(text) => text[i + Len(code)] \notin Digits

\* C39: the code of a match returned by extractOTP stands somewhere in the
\* text as a whole run of digits.
C39_CodeIsWholeDigitRun ==
  (Extraction /\ probe.out[1] # None) =>
    \E i \in 1..(Len(probe.arg) - Len(probe.out[1][1].code) + 1) :
      WholeRunAt(probe.out[1][1].code, probe.arg, i)

(***************************************************************************)
(* The iCloud source step by step: getImapClient (icloud.ts 191-219),      *)
(* fetchOTPs (234-317), markAsRead and deleteMessage (319-358).  probe.out *)
(* holds the call's session: where it stands, whether client.connect()     *)
(* succeeded, how often client.logout() was called, the next message of    *)
(* the fetch loop, the messages parsed, those whose parsing failed, and    *)
(* the entries pushed.                                                     *)
(***************************************************************************)
Session(pc) ==
  [pc |-> pc, connected |-> FALSE, logouts |-> 0, i |-> 1, parsed |-> {}, failed |-> {},
   entries |-> <<>>]

ImapOps == {"fetchOTPs", "markAsRead", "deleteMessage"}

Sess == probe.out[1]

ImapAt(pc) == probe.fn \in ImapOps /\ probe.out # <<>> /\ Sess.pc = pc

ImapFrame ==
  UNCHANGED <<prefs, dbExists, tokens, tokenStore, mailbox, commands, limit, clock, store, view, pass>>

\* the guards before the connection: isEnabled() and isConfigured() for
\* fetchOTPs (lines 237-239), entry.messageId for the other two (320, 340)
ImapGuard ==
  /\ probe.fn \in ImapOps /\ probe.out = <<>>
  /\ probe' = [probe EXCEPT !.out =
       <<Session(IF probe.fn = "fetchOTPs"
                   THEN (IF IsEnabled("icloud") /\ IsConfigured("icloud")
                           THEN "connect" ELSE "returned")
                 ELSE (IF probe.arg.messageId = None THEN "returned" ELSE "connect"))>>]
  /\ UNCHANGED remote
  /\ ImapFrame

\* getImapClient: client.connect() succeeds, or fails and null is returned,
\* on which the method returns
ImapConnect ==
  /\ ImapAt("connect")
  /\ \E ok \in BOOLEAN :
       probe' = [probe EXCEPT !.out =
                   <<IF ok THEN [Sess EXCEPT !.connected = TRUE, !.pc = "open"]
                     ELSE [Sess EXCEPT !.pc = "returned"]>>]
  /\ UNCHANGED remote
  /\ ImapFrame

\* client.mailboxOpen("INBOX") inside the try
ImapOpen ==
  /\ ImapAt("open")
  /\ \E ok \in BOOLEAN :
       probe' = [probe EXCEPT !.out =
                   <<[Sess EXCEPT !.pc = IF ~ok THEN "caught"
                                         ELSE IF probe.fn = "fetchOTPs" THEN "search"
                                         ELSE "act"]>>]
  /\ UNCHANGED remote
  /\ ImapFrame

\* client.search({since}): it throws, or finds nothing (the logout and
\* return [] of lines 263-266), or finds the messages of the mailbox
ImapSearch ==
  /\ ImapAt("search")
  /\ \E ok \in BOOLEAN :
       probe' = [probe EXCEPT !.out =
                   <<[Sess EXCEPT !.pc = IF ~ok THEN "caught"
                                         ELSE IF mailbox.icloud = <<>> THEN "logout"
                                         ELSE "fetch"]>>]
  /\ UNCHANGED remote
  /\ ImapFrame

\* the catch of the loop body left out: a parse error ends the fetch
ImapFetchOne_abort ==
  /\ ImapAt("fetch")
  /\ IF Sess.i > Len(mailbox.icloud)
       THEN probe' = [probe EXCEPT !.out = <<[Sess EXCEPT !.pc = "logout"]>>]
     ELSE \E o \in {"parsed", "parseError", "streamError"} :
            probe' = [probe EXCEPT !.out =
              <<CASE o = "parsed" ->
                       [Sess EXCEPT !.i = @ + 1, !.parsed = @ \cup {Sess.i},
                                    !.entries = @ \o MakeEntries("icloud", <<mailbox.icloud[Sess.i]>>)]
                  [] o = "parseError" ->
                       [Sess EXCEPT !.failed = @ \cup {Sess.i}, !.pc = "caught"]
                  [] o = "streamError" -> [Sess EXCEPT !.pc = "caught"]>>]
  /\ UNCHANGED remote
  /\ ImapFrame

\* one turn of for await (const msg of client.fetch(...)), lines 270-303:
\* the message is parsed and, when extractOTP finds a code, pushed; a parse
\* error is caught inside the loop and the loop goes on; an error of the
\* fetch stream itself goes to the outer catch; after the last message the
\* loop ends
ImapFetchOne ==
  /\ ImapAt("fetch")
  /\ IF Sess.i > Len(mailbox.icloud)
       THEN probe' = [probe EXCEPT !.out = <<[Sess EXCEPT !.pc = "logout"]>>]
     ELSE \E o \in {"parsed", "parseError", "streamError"} :
            probe' = [probe EXCEPT !.out =
              <<CASE o = "parsed" ->
                       [Sess EXCEPT !.i = @ + 1, !.parsed = @ \cup {Sess.i},
                                    !.entries = @ \o MakeEntries("icloud", <<mailbox.icloud[Sess.i]>>)]
                  [] o = "parseError" ->
                       [Sess EXCEPT !.failed = @ \cup {Sess.i}, !.i = @ + 1]
                  [] o = "streamError" -> [Sess EXCEPT !.pc = "caught"]>>]
  /\ UNCHANGED remote
  /\ ImapFrame

\* messageFlagsAdd (and messageDelete) inside the try: served or refused
ImapAct ==
  /\ ImapAt("act")
  /\ \E ok \in BOOLEAN :
       /\ probe' = [probe EXCEPT !.out =
                      <<[Sess EXCEPT !.pc = IF ok THEN "logout" ELSE "caught"]>>]
       /\ remote' = IF ok THEN [remote EXCEPT !.icloud =
                                  ImapServe(@, probe.fn, probe.arg.messageId[1])]
                    ELSE remote
  /\ ImapFrame

\* client.logout() at the end of the try (lines 264, 305, 328, 349): when it
\* throws, the catch is entered
ImapLogout ==
  /\ ImapAt("logout")
  /\ \E ok \in BOOLEAN :
       probe' = [probe EXCEPT !.out =
                   <<[Sess EXCEPT !.logouts = @ + 1,
                                  !.pc = IF ok THEN "returned" ELSE "caught"]>>]
  /\ UNCHANGED remote
  /\ ImapFrame

\* the catch without its logout
ImapCaught_bare ==
  /\ ImapAt("caught")
  /\ probe' = [probe EXCEPT !.out = <<[Sess EXCEPT !.pc = "returned"]>>]
  /\ UNCHANGED remote
  /\ ImapFrame

\* the catch (lines 306-313, 329-336, 350-357): the error is logged and
\* client.logout() is called in a try of its own, whose catch is empty; the
\* method then returns
ImapCaught ==
  /\ ImapAt("caught")
  /\ probe' = [probe EXCEPT !.out = <<[Sess EXCEPT !.logouts = @ + 1, !.pc = "returned"]>>]
  /\ UNCHANGED remote
  /\ ImapFrame

\* a message in whose text extractOTP finds nothing
PlainMsg(n, t) == TextMsg(n, t, <<"h", "e", "l", "l", "o">>)

\* the icloud messages since the cutoff
ImapMailboxes ==
  { <<>>, <<Msg(1, 2500)>>, <<Msg(1, 2500), PlainMsg(2, 2600)>>,
    <<PlainMsg(1, 2500), Msg(2, 2600), Msg(3, 2700)>> }

InitImap ==
  /\ dbExists = TRUE
  /\ tokenStore = "sound"
  /\ limit = 1
  /\ commands = {"view"}
  /\ \E on \in BOOLEAN : prefs = [AllOnPrefs EXCEPT !.enableICloudMail = on]
  /\ tokens = [gmail |-> TRUE, outlook |-> TRUE]
  /\ \E box \in ImapMailboxes : mailbox = [QuietMailbox EXCEPT !.icloud = box]
  /\ clock = StartInstant
  /\ view = InitView
  /\ pass = [p \in Slots |-> IdlePass]
  /\ store = [cache |-> None, lastRefresh |-> None, cacheBy |-> 0]
  /\ \E inbox \in Inboxes : remote = [NoRemote EXCEPT !.icloud = inbox]
  /\ probe \in {Call("fetchOTPs", [lookbackMinutes |-> DefaultLookback])}
                 \cup {Call(op, e) : op \in {"markAsRead", "deleteMessage"},
                                     e \in {x \in ActedEntries : x.source = "icloud"}}

ImapNext ==
  \/ ImapGuard
  \/ ImapConnect
  \/ ImapOpen
  \/ ImapSearch
  \/ ImapFetchOne
  \/ ImapAct
  \/ ImapLogout
  \/ ImapCaught

ImapSpec == InitImap /\ [][ImapNext]_vars

\* the entries of the messages with the given positions, in mailbox order
RECURSIVE EntriesOf(_, _)
EntriesOf(box, keep) ==
  IF box = <<>> THEN <<>>
  ELSE EntriesOf(SubSeq(box, 1, Len(box) - 1), keep)
         \o (IF Len(box) \in keep THEN MakeEntries("icloud", <<box[Len(box)]>>) ELSE <<>>)

\* C40: every step of fetchOTPs, markAsRead and deleteMessage of the icloud
\* source that returns after client.connect() succeeded has called
\* client.logout() in that step or before; a call whose connection failed, or
\* that returned at its guard, never calls it; a failing logout is followed
\* by the return, with one more logout tried in the catch; and a message
\* whose parsing fails is skipped while the loop goes on, so that a fetch
\* whose loop reached its end has the entries of exactly the messages parsed.
C40_LogoutBeforeReturn ==
  [][(probe.fn \in ImapOps /\ probe.out # <<>> /\ probe'.out # probe.out) =>
       LET s == probe.out[1]
           t == probe'.out[1]
       IN /\ t.pc = "returned" => (t.connected <=> t.logouts >= 1)
          /\ (s.pc = "logout" /\ t.pc = "caught") => t.logouts = s.logouts + 1
          /\ s.pc = "caught" => (t.pc = "returned" /\ t.logouts = s.logouts + 1)
          /\ t.failed # s.failed => (t.pc = "fetch" /\ t.entries = s.entries)
          /\ (s.pc = "fetch" /\ s.i <= Len(mailbox.icloud) /\ t.pc = "fetch") =>
               /\ t.i = s.i + 1
               /\ t.entries = EntriesOf(SubSeq(mailbox.icloud, 1, s.i), t.parsed)
          /\ (s.pc = "fetch" /\ t.pc = "logout") =>
               t.entries = EntriesOf(mailbox.icloud, t.parsed)]_vars

\* a fetch has returned the entry of the third message after the parsing of
\* the second failed, and its first logout failed
C40_Witness ==
  /\ probe.fn = "fetchOTPs" /\ probe.out # <<>>
  /\ Sess.pc = "returned" /\ Sess.connected
  /\ Len(mailbox.icloud) = 3 /\ Sess.parsed = {1, 3} /\ Sess.failed = {2}
  /\ Len(Sess.entries) = 1
  /\ Sess.logouts = 2

\* deleteMessage has returned after its command was refused, with one logout
C40_WitnessRefused ==
  /\ probe.fn = "deleteMessage" /\ probe.out # <<>>
  /\ Sess.pc = "returned" /\ Sess.connected
  /\ Sess.logouts = 1
  /\ remote.icloud \in Inboxes
====
